---- MODULE Spec2Model ----
(***************************************************************************)
(* SecureFlow backend (src/backend/app.py): the payload normalizer, the    *)
(* lazy initialization of the global model / scaler, and the request       *)
(* handlers that use them.                                                 *)
(*                                                                         *)
(* Python values are records [k, n, s]: k is the type ("int", "float",     *)
(* "str", "none"), n the number (a float is held in tenths) and s the      *)
(* characters of a string.  A dict is a function whose DOMAIN is its keys. *)
(***************************************************************************)
EXTENDS Integers, Sequences, FiniteSets, TLC

\* ------------------------------------------------------------------------
\* Python values
\* ------------------------------------------------------------------------
IntV(n) == [k |-> "int", n |-> n, s |-> <<>>]
FloatV(t) == [k |-> "float", n |-> t, s |-> <<>>]
StrV(chars) == [k |-> "str", n |-> 0, s |-> chars]
NoneV == [k |-> "none", n |-> 0, s |-> <<>>]
\* marks a key the payload does not have (never a value of a dict)
ABSENT == [k |-> "absent", n |-> 0, s |-> <<>>]

Digits == <<"0", "1", "2", "3", "4", "5", "6", "7", "8", "9">>
IsDigit(c) == \E i \in 1..10 : Digits[i] = c
DigitVal(c) == (CHOOSE i \in 1..10 : Digits[i] = c) - 1

\* the decimal number written by the digit characters of cs (cs all digits)
RECURSIVE DecVal(_)
DecVal(cs) ==
    IF cs = <<>> THEN 0
    ELSE 10 * DecVal(SubSeq(cs, 1, Len(cs) - 1)) + DigitVal(cs[Len(cs)])

AllDigits(cs) == Len(cs) > 0 /\ \A i \in 1..Len(cs) : IsDigit(cs[i])

\* the digit characters of a natural number
RECURSIVE NatChars(_)
NatChars(n) ==
    IF n < 10 THEN <<Digits[n + 1]>>
    ELSE NatChars(n \div 10) \o <<Digits[(n % 10) + 1]>>

Abs(x) == IF x < 0 THEN 0 - x ELSE x

\* str(value), as the normalizer applies it to category / merchant / type
PyStr(v) ==
    CASE v.k = "str" -> v.s
      [] v.k = "int" -> IF v.n < 0 THEN <<"-">> \o NatChars(0 - v.n) ELSE NatChars(v.n)
      [] v.k = "float" ->
            (IF v.n < 0 THEN <<"-">> ELSE <<>>)
                \o NatChars(Abs(v.n) \div 10) \o <<".">> \o NatChars(Abs(v.n) % 10)
      [] OTHER -> <<"N", "o", "n", "e">>

\* ------------------------------------------------------------------------
\* hash(): the interpreter's string hash, keyed by a per-process seed
\* ------------------------------------------------------------------------
HashBits == 12
HashMod == 2 ^ HashBits

Alphabet == <<"a", "b", "c", "d", "e", "f", "g", "h", "i", "j", "k", "l", "m",
              "n", "o", "p", "q", "r", "s", "t", "u", "v", "w", "x", "y", "z",
              "0", "1", "2", "3", "4", "5", "6", "7", "8", "9",
              "-", ":", "+", ".", "T", "Z", "N", " ">>
Ord(c) == IF \E i \in 1..Len(Alphabet) : Alphabet[i] = c
          THEN CHOOSE i \in 1..Len(Alphabet) : Alphabet[i] = c
          ELSE 0

RECURSIVE HashMix(_, _)
HashMix(h, cs) ==
    IF cs = <<>> THEN h
    ELSE HashMix((h * 31 + Ord(cs[1]) + 7) % HashMod, Tail(cs))

\* a signed value that depends on every character and on the process's seed
PyHash(seed, cs) ==
    LET h == HashMix((seed * 2654 + 977) % HashMod, cs)
    IN  IF h >= HashMod \div 2 THEN h - HashMod ELSE h

\* ------------------------------------------------------------------------
\* _stable_category_code
\* ------------------------------------------------------------------------
\* value is the str() of the source field; None never reaches the hash

\* a code that may reach the modulus itself
_stable_category_code_UpToModulus(seed, value, modulus) ==
    IF value = NoneV THEN 0
    ELSE Abs(PyHash(seed, value.s)) % (modulus + 1)

_stable_category_code(seed, value, modulus) ==
    IF value = NoneV THEN 0
    ELSE Abs(PyHash(seed, value.s)) % modulus

\* ------------------------------------------------------------------------
\* datetime.fromisoformat(ts.replace('Z', '+00:00')), .hour and .weekday()
\* ------------------------------------------------------------------------
RECURSIVE ReplaceZ(_)
ReplaceZ(cs) ==
    IF cs = <<>> THEN <<>>
    ELSE (IF cs[1] = "Z" THEN <<"+", "0", "0", ":", "0", "0">> ELSE <<cs[1]>>)
            \o ReplaceZ(Tail(cs))

IsLeap(y) == (y % 4 = 0) /\ ((y % 100 # 0) \/ (y % 400 = 0))

DaysInMonth(y, m) ==
    IF m = 2 THEN (IF IsLeap(y) THEN 29 ELSE 28)
    ELSE IF m \in {4, 6, 9, 11} THEN 30 ELSE 31

RECURSIVE DaysBeforeMonth(_, _)
DaysBeforeMonth(y, m) ==
    IF m = 1 THEN 0 ELSE DaysBeforeMonth(y, m - 1) + DaysInMonth(y, m - 1)

DaysBeforeYear(y) ==
    LET p == y - 1 IN p * 365 + (p \div 4) - (p \div 100) + (p \div 400)

\* the weekday counted from Sunday = 0
Weekday_SundayFirst(y, m, d) == (DaysBeforeYear(y) + DaysBeforeMonth(y, m) + d) % 7

\* date.weekday(): Monday = 0 .. Sunday = 6
Weekday(y, m, d) == (DaysBeforeYear(y) + DaysBeforeMonth(y, m) + d + 6) % 7

\* position of the first "+" or "-" of cs, 0 when there is none
FirstSign(cs) ==
    IF \E i \in 1..Len(cs) : cs[i] \in {"+", "-"}
    THEN CHOOSE i \in 1..Len(cs) :
            /\ cs[i] \in {"+", "-"}
            /\ \A j \in 1..(i - 1) : cs[j] \notin {"+", "-"}
    ELSE 0

\* HH, HH:MM or HH:MM:SS
ValidClock(cs) ==
    /\ Len(cs) \in {2, 5, 8}
    /\ AllDigits(SubSeq(cs, 1, 2))
    /\ Len(cs) >= 5 => (cs[3] = ":" /\ AllDigits(SubSeq(cs, 4, 5)))
    /\ Len(cs) >= 8 => (cs[6] = ":" /\ AllDigits(SubSeq(cs, 7, 8)))

ValidTime(cs) ==
    /\ ValidClock(cs)
    /\ DecVal(SubSeq(cs, 1, 2)) <= 23
    /\ Len(cs) >= 5 => DecVal(SubSeq(cs, 4, 5)) <= 59
    /\ Len(cs) >= 8 => DecVal(SubSeq(cs, 7, 8)) <= 59

ValidOffset(cs) ==
    /\ Len(cs) = 5
    /\ ValidClock(cs)
    /\ DecVal(SubSeq(cs, 1, 2)) * 60 + DecVal(SubSeq(cs, 4, 5)) < 1440

ValidDate(cs) ==
    /\ Len(cs) >= 10
    /\ AllDigits(SubSeq(cs, 1, 4)) /\ cs[5] = "-"
    /\ AllDigits(SubSeq(cs, 6, 7)) /\ cs[8] = "-"
    /\ AllDigits(SubSeq(cs, 9, 10))
    /\ DecVal(SubSeq(cs, 1, 4)) >= 1
    /\ DecVal(SubSeq(cs, 6, 7)) \in 1..12
    /\ DecVal(SubSeq(cs, 9, 10)) >= 1
    /\ DecVal(SubSeq(cs, 9, 10))
          <= DaysInMonth(DecVal(SubSeq(cs, 1, 4)), DecVal(SubSeq(cs, 6, 7)))

\* the text after the date and its one separator character, split at the
\* first sign into the clock and the UTC offset
ValidIso(cs) ==
    /\ ValidDate(cs)
    /\ Len(cs) > 10 =>
          LET tstr == SubSeq(cs, 12, Len(cs))
              p == FirstSign(tstr)
          IN  IF p = 0 THEN ValidTime(tstr)
              ELSE /\ ValidTime(SubSeq(tstr, 1, p - 1))
                   /\ ValidOffset(SubSeq(tstr, p + 1, Len(tstr)))

\* the try-block of the timestamp derivation: ok with the hour and weekday
\* of the parsed datetime, or the exception the block raises
ParseTimestamp(ts) ==
    IF ts.k # "str"
    THEN [ok |-> FALSE, exc |-> "AttributeError", hour |-> 0, weekday |-> 0]
    ELSE LET cs == ReplaceZ(ts.s) IN
         IF ~ValidIso(cs)
         THEN [ok |-> FALSE, exc |-> "ValueError", hour |-> 0, weekday |-> 0]
         ELSE [ok |-> TRUE, exc |-> "",
               hour |-> IF Len(cs) > 10 THEN DecVal(SubSeq(cs, 12, 13)) ELSE 0,
               weekday |-> Weekday(DecVal(SubSeq(cs, 1, 4)),
                                   DecVal(SubSeq(cs, 6, 7)),
                                   DecVal(SubSeq(cs, 9, 10)))]

\* ------------------------------------------------------------------------
\* float() and int()
\* ------------------------------------------------------------------------
\* optional sign, then digits
IsIntText(cs) ==
    IF Len(cs) > 0 /\ cs[1] \in {"+", "-"} THEN AllDigits(Tail(cs)) ELSE AllDigits(cs)

IntTextVal(cs) ==
    IF cs[1] = "-" THEN 0 - DecVal(Tail(cs))
    ELSE IF cs[1] = "+" THEN DecVal(Tail(cs)) ELSE DecVal(cs)

\* digits "." one digit (the floats of the model have one decimal place)
IsFloatText(cs) ==
    /\ Len(cs) >= 3
    /\ cs[Len(cs) - 1] = "."
    /\ IsDigit(cs[Len(cs)])
    /\ IsIntText(SubSeq(cs, 1, Len(cs) - 2))

FloatTextVal(cs) ==
    LET w == IntTextVal(SubSeq(cs, 1, Len(cs) - 2))
        f == DigitVal(cs[Len(cs)])
    IN  IF cs[1] = "-" THEN w * 10 - f ELSE w * 10 + f

\* int(v): [exc, n]
PyInt(v) ==
    CASE v.k = "int" -> [exc |-> "", n |-> v.n]
      [] v.k = "float" ->
            [exc |-> "", n |-> IF v.n < 0 THEN 0 - ((0 - v.n) \div 10) ELSE v.n \div 10]
      [] v.k = "str" ->
            IF IsIntText(v.s) THEN [exc |-> "", n |-> IntTextVal(v.s)]
            ELSE [exc |-> "ValueError", n |-> 0]
      [] OTHER -> [exc |-> "TypeError", n |-> 0]

\* float(v): [exc, n], n in tenths
PyFloat(v) ==
    CASE v.k = "int" -> [exc |-> "", n |-> v.n * 10]
      [] v.k = "float" -> [exc |-> "", n |-> v.n]
      [] v.k = "str" ->
            IF IsIntText(v.s) THEN [exc |-> "", n |-> IntTextVal(v.s) * 10]
            ELSE IF IsFloatText(v.s) THEN [exc |-> "", n |-> FloatTextVal(v.s)]
            ELSE [exc |-> "ValueError", n |-> 0]
      [] OTHER -> [exc |-> "TypeError", n |-> 0]

\* ------------------------------------------------------------------------
\* normalize_transaction_payload
\* ------------------------------------------------------------------------
feature_names == <<"amount", "hour", "day_of_week", "merchant_category", "transaction_type">>

EmptyDict == [x \in {} |-> NoneV]

Has(d, key) == key \in DOMAIN d

\* d[key] = v
Put(d, key, v) == [x \in (DOMAIN d) \cup {key} |-> IF x = key THEN v ELSE d[x]]

\* d.setdefault(key, v)
SetDefault(d, key, v) == IF Has(d, key) THEN d ELSE Put(d, key, v)

\* dict(raw or {}): a copy; None and the empty dict both give the empty dict
DictOf(raw) == IF raw = NoneV THEN EmptyDict ELSE raw

\* the derivation with plain assignments instead of setdefault
DeriveTime_Overwrite(data) ==
    IF (~Has(data, "hour") \/ ~Has(data, "day_of_week")) /\ Has(data, "timestamp")
    THEN LET dt == ParseTimestamp(data["timestamp"]) IN
         IF dt.ok
         THEN Put(Put(data, "hour", IntV(dt.hour)), "day_of_week", IntV(dt.weekday))
         ELSE data
    ELSE data

\* the derivation with midnight / Monday filled in when the parse fails
DeriveTime_ZeroOnFailure(data) ==
    IF (~Has(data, "hour") \/ ~Has(data, "day_of_week")) /\ Has(data, "timestamp")
    THEN LET dt == ParseTimestamp(data["timestamp"]) IN
         SetDefault(SetDefault(data, "hour", IntV(dt.hour)),
                    "day_of_week", IntV(dt.weekday))
    ELSE data

\* lines 105-115: hour / day_of_week from the timestamp, a failed parse swallowed
DeriveTime(data) ==
    IF (~Has(data, "hour") \/ ~Has(data, "day_of_week")) /\ Has(data, "timestamp")
    THEN LET dt == ParseTimestamp(data["timestamp"]) IN
         IF dt.ok
         THEN SetDefault(SetDefault(data, "hour", IntV(dt.hour)),
                         "day_of_week", IntV(dt.weekday))
         ELSE data
    ELSE data

\* the derivation with merchant tried before category
DeriveMerchantCategory_MerchantFirst(seed, data) ==
    IF ~Has(data, "merchant_category")
    THEN IF Has(data, "merchant")
         THEN Put(data, "merchant_category",
                  IntV(_stable_category_code(seed, StrV(PyStr(data["merchant"])), 10)))
         ELSE IF Has(data, "category")
         THEN Put(data, "merchant_category",
                  IntV(_stable_category_code(seed, StrV(PyStr(data["category"])), 10)))
         ELSE data
    ELSE data

\* lines 117-122: merchant_category from category, else from merchant
DeriveMerchantCategory(seed, data) ==
    IF ~Has(data, "merchant_category")
    THEN IF Has(data, "category")
         THEN Put(data, "merchant_category",
                  IntV(_stable_category_code(seed, StrV(PyStr(data["category"])), 10)))
         ELSE IF Has(data, "merchant")
         THEN Put(data, "merchant_category",
                  IntV(_stable_category_code(seed, StrV(PyStr(data["merchant"])), 10)))
         ELSE data
    ELSE data

\* the derivation with the default modulus (10) for type
DeriveTransactionType_Mod10(seed, data) ==
    IF ~Has(data, "transaction_type")
    THEN IF Has(data, "type")
         THEN Put(data, "transaction_type",
                  IntV(_stable_category_code(seed, StrV(PyStr(data["type"])), 10)))
         ELSE Put(data, "transaction_type", IntV(0))
    ELSE data

\* lines 124-128: transaction_type from type, else 0
DeriveTransactionType(seed, data) ==
    IF ~Has(data, "transaction_type")
    THEN IF Has(data, "type")
         THEN Put(data, "transaction_type",
                  IntV(_stable_category_code(seed, StrV(PyStr(data["type"])), 3)))
         ELSE Put(data, "transaction_type", IntV(0))
    ELSE data


\* a validation that reports the first absent feature only
MissingFrom_FirstOnly(data) ==
    LET all == SelectSeq(feature_names, LAMBDA f : ~Has(data, f))
    IN  IF all = <<>> THEN <<>> ELSE <<all[1]>>

\* line 131: the features data lacks, in feature_names order
MissingFrom(data) == SelectSeq(feature_names, LAMBDA f : ~Has(data, f))

\* ', '.join(names) as tokens
RECURSIVE JoinComma(_)
JoinComma(names) ==
    IF Len(names) = 0 THEN <<>>
    ELSE IF Len(names) = 1 THEN names
    ELSE <<names[1], ", ">> \o JoinComma(Tail(names))

Raise(exc, msg) == [status |-> "raise", exc |-> exc, msg |-> msg, value |-> EmptyDict]
Return(value) == [status |-> "ok", exc |-> "", msg |-> <<>>, value |-> value]

\* the message of the exception float() / int() raises for value v
CoerceMsg(fn, e, v) ==
    IF e = "ValueError"
    THEN (IF fn = "float" THEN <<"could not convert string to float: ">>
          ELSE <<"invalid literal for int() with base 10: ">>) \o <<"'">> \o v.s \o <<"'">>
    ELSE <<fn, "() argument must be a string or a real number, not 'NoneType'">>

\* lines 135-143: the dict display is evaluated in order, the first failing
\* conversion raises
Coerce(data) ==
    LET a == PyFloat(data["amount"])
        h == PyInt(data["hour"])
        d == PyInt(data["day_of_week"])
        m == PyInt(data["merchant_category"])
        t == PyInt(data["transaction_type"])
    IN  IF a.exc # "" THEN Raise(a.exc, CoerceMsg("float", a.exc, data["amount"]))
        ELSE IF h.exc # "" THEN Raise(h.exc, CoerceMsg("int", h.exc, data["hour"]))
        ELSE IF d.exc # "" THEN Raise(d.exc, CoerceMsg("int", d.exc, data["day_of_week"]))
        ELSE IF m.exc # ""
        THEN Raise(m.exc, CoerceMsg("int", m.exc, data["merchant_category"]))
        ELSE IF t.exc # ""
        THEN Raise(t.exc, CoerceMsg("int", t.exc, data["transaction_type"]))
        ELSE Return([f \in {"amount", "hour", "day_of_week", "merchant_category",
                            "transaction_type"} |->
                        CASE f = "amount" -> a.n
                          [] f = "hour" -> h.n
                          [] f = "day_of_week" -> d.n
                          [] f = "merchant_category" -> m.n
                          [] OTHER -> t.n])

\* the dict after the derivation steps (lines 105-128)
Derived(seed, data) ==
    DeriveTransactionType(seed, DeriveMerchantCategory(seed, DeriveTime(data)))

\* the normalizer without the early check of amount
normalize_NoAmountGate(seed, raw) ==
    LET derived == Derived(seed, DictOf(raw))
        missing == MissingFrom(derived)
    IN  IF missing # <<>>
        THEN Raise("ValueError", <<"Missing required field(s): ">> \o JoinComma(missing))
        ELSE Coerce(derived)


\* a normalizer that works on the caller's dict itself (data = raw): the
\* stores of the derivation steps show in the caller's mapping
ArgumentAfter_InPlace(seed, raw) ==
    IF raw = NoneV \/ ~Has(raw, "amount") THEN raw ELSE Derived(seed, raw)

\* the caller's mapping after the call: line 99 makes `data` a new dict, so
\* the stores of lines 111-128 go to the copy and the argument keeps its items
ArgumentAfter(seed, raw) == raw

normalize_transaction_payload(seed, raw) ==
    LET data == DictOf(raw) IN
    IF ~Has(data, "amount")
    THEN Raise("ValueError", <<"Missing required field: ", "amount">>)
    ELSE LET derived == Derived(seed, data)
             missing == MissingFrom(derived)
         IN  IF missing # <<>>
             THEN Raise("ValueError", <<"Missing required field(s): ">> \o JoinComma(missing))
             ELSE Coerce(derived)

\* ------------------------------------------------------------------------
\* Inputs
\* ------------------------------------------------------------------------
Chars(str) ==
    CASE str = "abc" -> <<"a", "b", "c">>
      [] str = "food" -> <<"f", "o", "o", "d">>
      [] str = "acme" -> <<"a", "c", "m", "e">>
      [] str = "purchase" -> <<"p", "u", "r", "c", "h", "a", "s", "e">>
      [] str = "refund" -> <<"r", "e", "f", "u", "n", "d">>
      [] str = "not-a-date" -> <<"n", "o", "t", "-", "a", "-", "d", "a", "t", "e">>
      [] str = "2024-03-04T15:30:00Z" ->
            <<"2", "0", "2", "4", "-", "0", "3", "-", "0", "4", "T",
              "1", "5", ":", "3", "0", ":", "0", "0", "Z">>
      [] str = "2023-01-01 23:05+05:30" ->
            <<"2", "0", "2", "3", "-", "0", "1", "-", "0", "1", " ",
              "2", "3", ":", "0", "5", "+", "0", "5", ":", "3", "0">>
      [] str = "2024-02-30T10:00:00" ->
            <<"2", "0", "2", "4", "-", "0", "2", "-", "3", "0", "T",
              "1", "0", ":", "0", "0", ":", "0", "0">>

Keys == {"amount", "hour", "day_of_week", "merchant_category", "transaction_type",
         "timestamp", "category", "merchant", "type"}

\* the values a payload may give each key (ABSENT: the key is not there)
OptAmount == {ABSENT, IntV(42), StrV(Chars("abc"))}
OptHour == {ABSENT, IntV(9), NoneV}
OptDay == {ABSENT, IntV(3)}
OptMerchantCategory == {ABSENT, IntV(12)}
OptTransactionType == {ABSENT, IntV(5)}
OptTimestamp == {ABSENT, StrV(Chars("2024-03-04T15:30:00Z")),
                 StrV(Chars("2023-01-01 23:05+05:30")),
                 StrV(Chars("not-a-date")), StrV(Chars("2024-02-30T10:00:00")),
                 IntV(1700000000)}
OptCategory == {ABSENT, StrV(Chars("food")), IntV(7)}
OptMerchant == {ABSENT, StrV(Chars("acme"))}
OptType == {ABSENT, StrV(Chars("purchase")), StrV(Chars("refund"))}

\* the dict with the keys of c that are not ABSENT
MkPayload(c) == [x \in {y \in DOMAIN c : c[y] # ABSENT} |-> c[x]]

Payloads ==
    { MkPayload([amount |-> a, hour |-> h, day_of_week |-> d, merchant_category |-> mc,
                 transaction_type |-> tt, timestamp |-> ts, category |-> cat,
                 merchant |-> mer, type |-> ty]) :
        a \in OptAmount, h \in OptHour, d \in OptDay, mc \in OptMerchantCategory,
        tt \in OptTransactionType, ts \in OptTimestamp, cat \in OptCategory,
        mer \in OptMerchant, ty \in OptType }

\* the per-process hash seeds (PYTHONHASHSEED) the model tries
MaxSeed == 1
Seeds == 0..MaxSeed


\* how many process runs, and how many calls of the hashing code, a behaviour has
MaxRuns == 2
MaxCalls == 2

\* the values handed to _stable_category_code (None included) and its moduli
HashValues ==
    {StrV(Chars("food")), StrV(Chars("acme")), StrV(Chars("purchase")),
     StrV(Chars("refund")), StrV(PyStr(IntV(7))), NoneV}
Moduli == {10, 3}

\* payloads whose merchant_category / transaction_type come from a string
LegacyPayloads ==
    { MkPayload([amount |-> IntV(42), hour |-> IntV(9), day_of_week |-> IntV(3),
                 category |-> cat, merchant |-> mer, type |-> ty]) :
        cat \in {ABSENT, StrV(Chars("food"))}, mer \in {StrV(Chars("acme"))},
        ty \in {ABSENT, StrV(Chars("purchase")), StrV(Chars("refund"))} }

NotCalled == [status |-> "none", exc |-> "", msg |-> <<>>, value |-> EmptyDict]

\* ------------------------------------------------------------------------
\* State
\* ------------------------------------------------------------------------
\* request-handling threads of one worker process
NumThreads == 2
Threads == 1..NumThreads

\* how many calls into a library or the database may raise in one run
MaxFaults == 1

VARIABLES
    hashSeed,     \* the seed of this process's string hash
    nraw,         \* the mapping handed to normalize_transaction_payload
    nresult,      \* what the call returned or raised
    narg,         \* the caller's mapping (the object passed as `raw`) as it is now
    run,          \* the number of this process run (1 is the first)
    calls,        \* the calls of the hashing code made so far, over all runs
    model,        \* global `model`: 0 is None, else the object it refers to
    scaler,       \* global `scaler`: 0 is None, else the object it refers to
    fitted,       \* the objects whose fit has completed
    initialized,  \* global `_initialized`
    tables,       \* the database tables exist (init_database has succeeded)
    fitCalls,     \* how many times model.fit (line 194) has completed
    faults,       \* how many calls have raised so far
    pc,           \* per thread: the statement it executes next
    ep,           \* per thread: the endpoint of its request
    req,          \* per thread: the JSON body of its request
    stack,        \* per thread: the statements its pending calls return to
    ref,          \* per thread: the object whose fit it is running (0: none)
    resp,         \* per thread: the response of its last request
    late,         \* per thread: its request arrived with _initialized set
    now,          \* time.time(), in seconds since the process started
    dashCache,    \* global `_dashboard_cache`: "none", or its 'cached' entry
    dashCacheTime,\* global `_dashboard_cache_time`: -1 is None
    curTime,      \* per thread: `current_time` of get_dashboard_data
    genAt,        \* per thread: 'generated_at' of `response` of get_dashboard_data
    dashGen,      \* 'generated_at' of `_dashboard_cache` (-1: there is none)
    dashStart,    \* `current_time` of the recompute that assigned `_dashboard_cache`
    bi,           \* per thread: the index of the batch item being processed
    results,      \* per thread: `results` of predict_batch
    score,        \* per thread: `anomaly_score` of the item being scored
    expl,         \* per thread: `shap_explanation` of the item being scored
    feedbackRows, \* the rows of table `feedback`, in the order of their ids
    existing,     \* per thread: `existing_feedback` (the row's id, 0 is None)
    event,        \* the event of the last invocation of lambda_handler
    lresp,        \* what that invocation returned
    lstored       \* the ids of the items of the DynamoDB table of transactions

normVars == <<hashSeed, nraw, nresult, narg, run, calls, event, lresp, lstored>>
lambdaVars == <<event, lresp, lstored>>
modelVars == <<model, scaler, fitted, initialized, fitCalls>>
dashVars == <<dashCache, dashCacheTime, dashGen, dashStart>>
envVars == <<now, tables, feedbackRows>>
globalVars == <<model, scaler, fitted, initialized, fitCalls, faults, now,
                tables, dashCache, dashCacheTime, dashGen, dashStart, feedbackRows>>
dashLocals == <<curTime, genAt, existing>>
localVars == <<ep, req, ref, late, curTime, genAt, bi, results, score, expl, existing>>
scoreVars == <<score, expl>>
threadVars == <<pc, ep, req, stack, ref, resp, late, curTime, genAt, bi, results, score,
                expl, existing>>
vars == <<hashSeed, nraw, nresult, narg, run, calls, model, scaler, fitted, initialized, fitCalls, faults,
          now, tables, dashCache, dashCacheTime, dashGen, dashStart,
          pc, ep, req, stack, ref, resp, late, curTime, genAt, bi, results, score, expl,
          feedbackRows, existing, event, lresp, lstored>>

\* a response: the status code, the exception behind an error answer and its
\* 'error' text, the 'cached' and 'stale' entries of a dashboard answer, the
\* batch results, and the score and explanation of a prediction
MkResp(code, err, cached, stale, res) ==
    [code |-> code, err |-> err, msg |-> <<>>, cached |-> cached, stale |-> stale,
     results |-> res, scored |-> FALSE, score |-> 0, expl |-> EmptyDict, data |-> -1]

\* a dashboard answer with the data generated at time g
DashResp(cached, stale, g) ==
    [MkResp(200, "", cached, stale, <<>>) EXCEPT !.data = g]

\* jsonify({'error': str(e)}), code
ErrorResp(code, err, msg) == [MkResp(code, err, FALSE, FALSE, <<>>) EXCEPT !.msg = msg]

\* the response of predict_anomaly, lines 409-418
PredictResp(s, e) ==
    [MkResp(200, "", FALSE, FALSE, <<>>) EXCEPT !.scored = TRUE, !.score = s, !.expl = e]
NoResp == MkResp(0, "", FALSE, FALSE, <<>>)

\* module import, lines 68-71: nothing is trained yet
InitGlobals ==
    /\ model = 0
    /\ scaler = 0
    /\ fitted = {}
    /\ initialized = FALSE
    /\ fitCalls = 0
    /\ faults = 0
    /\ now = 0
    /\ dashCache = "none"
    /\ dashCacheTime = -1
    /\ dashGen = -1
    /\ dashStart = -1
    /\ tables = FALSE
    /\ feedbackRows = <<>>

InitThreads ==
    /\ pc = [t \in Threads |-> "idle"]
    /\ ep = [t \in Threads |-> "none"]
    /\ req = [t \in Threads |-> NoneV]
    /\ stack = [t \in Threads |-> <<>>]
    /\ ref = [t \in Threads |-> 0]
    /\ resp = [t \in Threads |-> NoResp]
    /\ late = [t \in Threads |-> FALSE]
    /\ curTime = [t \in Threads |-> 0]
    /\ genAt = [t \in Threads |-> 0]
    /\ bi = [t \in Threads |-> 0]
    /\ results = [t \in Threads |-> <<>>]
    /\ score = [t \in Threads |-> 0]
    /\ expl = [t \in Threads |-> EmptyDict]
    /\ existing = [t \in Threads |-> 0]

\* ---- the serverless handler's state (src/lambda/lambda_function.py) ----
\* the 'headers' of the responses
CorsOrigin == {"Content-Type", "Access-Control-Allow-Origin"}
CorsAll == CorsOrigin \cup {"Access-Control-Allow-Headers", "Access-Control-Allow-Methods"}
CorsPreflight == CorsAll \ {"Content-Type"}

\* a response: statusCode, the names of its headers, the value of
\* Access-Control-Allow-Origin, whether the body has an 'error' entry, and
\* the entries of the body of a prediction, a fraud check and a transaction
LambdaResponse(h, code, headers, error) ==
    [handler |-> h, statusCode |-> code, headers |-> headers, origin |-> "*",
     error |-> error, transaction_id |-> <<>>, is_anomaly |-> FALSE,
     anomaly_score |-> 0, risk_level |-> "", is_suspicious |-> FALSE,
     fraud_score |-> 0, risk_factors |-> <<>>, recommendation |-> ""]

NotInvoked == LambdaResponse("none", 0, {}, FALSE)

NoBody == [kind |-> "none", d |-> EmptyDict]
NoEvent == [httpMethod |-> "absent", path |-> ABSENT, rcPath |-> ABSENT, body |-> NoBody]

\* the module is loaded: nothing has been invoked, the table is empty
InitLambda ==
    /\ event = NoEvent
    /\ lresp = NotInvoked
    /\ lstored = {}

\* ------------------------------------------------------------------------
\* The normalizer on its own
\* ------------------------------------------------------------------------
InitNorm ==
    /\ hashSeed \in Seeds
    /\ nraw \in Payloads \cup {NoneV}
    /\ nresult = NotCalled
    /\ narg = nraw
    /\ run = 1
    /\ calls = <<>>
    /\ InitLambda
    /\ InitGlobals
    /\ InitThreads

Normalize ==
    /\ nresult = NotCalled
    /\ nresult' = normalize_transaction_payload(hashSeed, nraw)
    /\ narg' = ArgumentAfter(hashSeed, nraw)
    /\ UNCHANGED <<hashSeed, nraw, run, calls, lambdaVars>>
    /\ UNCHANGED globalVars
    /\ UNCHANGED threadVars

NextNorm == Normalize

SpecNorm == InitNorm /\ [][NextNorm]_vars


\* ------------------------------------------------------------------------
\* The hashing code over process runs
\* ------------------------------------------------------------------------
\* an entry of the call log
CodeCall(r, v, m, c) ==
    [run |-> r, fn |-> "code", arg |-> v, raw |-> EmptyDict, modulus |-> m,
     code |-> c, ttype |-> 0]
NormCall(r, raw, res) ==
    [run |-> r, fn |-> "normalize", arg |-> NoneV, raw |-> raw, modulus |-> 0,
     code |-> res.value["merchant_category"], ttype |-> res.value["transaction_type"]]

InitHash ==
    /\ hashSeed \in Seeds
    /\ nraw = NoneV
    /\ nresult = NotCalled
    /\ narg = NoneV
    /\ run = 1
    /\ calls = <<>>
    /\ InitLambda
    /\ InitGlobals
    /\ InitThreads

\* _stable_category_code(value, modulus) is called in the current run
CallCode ==
    /\ Len(calls) < MaxCalls
    /\ \E v \in HashValues : \E m \in Moduli :
          calls' = Append(calls, CodeCall(run, v, m, _stable_category_code(hashSeed, v, m)))
    /\ UNCHANGED <<hashSeed, nraw, nresult, narg, run, lambdaVars>>
    /\ UNCHANGED globalVars
    /\ UNCHANGED threadVars

\* normalize_transaction_payload is called in the current run on a payload
\* it accepts
CallNormalize ==
    /\ Len(calls) < MaxCalls
    /\ \E raw \in LegacyPayloads :
          LET res == normalize_transaction_payload(hashSeed, raw) IN
          /\ res.status = "ok"
          /\ calls' = Append(calls, NormCall(run, raw, res))
    /\ UNCHANGED <<hashSeed, nraw, nresult, narg, run, lambdaVars>>
    /\ UNCHANGED globalVars
    /\ UNCHANGED threadVars

\* the process ends and a new one starts: the interpreter draws the seed of
\* its string hash anew
Restart ==
    /\ run < MaxRuns
    /\ run' = run + 1
    /\ hashSeed' \in Seeds
    /\ UNCHANGED <<nraw, nresult, narg, calls, lambdaVars>>
    /\ UNCHANGED globalVars
    /\ UNCHANGED threadVars

NextHash == CallCode \/ CallNormalize \/ Restart

SpecHash == InitHash /\ [][NextHash]_vars

\* ------------------------------------------------------------------------
\* The server: requests handled by concurrent threads
\* ------------------------------------------------------------------------
ExplicitPayload ==
    [amount |-> IntV(42), hour |-> IntV(9), day_of_week |-> IntV(3),
     merchant_category |-> IntV(12), transaction_type |-> IntV(5)]

\* the bodies posted to /api/predict: complete, without amount, with a null hour
ServerPayloads ==
    {ExplicitPayload, [hour |-> IntV(9)], [ExplicitPayload EXCEPT !["hour"] = NoneV]}

\* more bodies for /api/predict: an amount that is not a number, the
\* simplified schema, the simplified schema without category and merchant
ScorePayloads ==
    ServerPayloads \cup
    {[ExplicitPayload EXCEPT !["amount"] = StrV(Chars("abc"))],
     [amount |-> IntV(7), timestamp |-> StrV(Chars("2024-03-04T15:30:00Z")),
      category |-> StrV(Chars("food"))],
     [amount |-> IntV(7), timestamp |-> StrV(Chars("2024-03-04T15:30:00Z"))]}

\* a second complete payload, with another score: a large amount at night
SecondPayload ==
    [ExplicitPayload EXCEPT !["amount"] = IntV(5000), !["hour"] = IntV(3)]

\* the bodies posted to /api/predict-batch: no transactions key, an empty
\* list, a list whose first item lacks amount
BatchBodies ==
    {EmptyDict, [transactions |-> <<>>],
     [transactions |-> <<[hour |-> IntV(9)], ExplicitPayload>>]}

\* more bodies for /api/predict-batch: null, a list whose middle item lacks
\* amount, a list of invalid items
ScoreBatchBodies ==
    BatchBodies \cup
    {NoneV,
     [transactions |-> <<ExplicitPayload, [hour |-> IntV(9)], SecondPayload>>],
     [transactions |-> <<[hour |-> IntV(9)],
                         [ExplicitPayload EXCEPT !["amount"] = StrV(Chars("abc"))]>>]}

\* the bodies posted to /api/feedback that are answered before the feedback
\* table is read: for a transaction that is not stored, and without the
\* feedback key
FeedbackBodies ==
    {[transaction_id |-> IntV(2), feedback |-> IntV(1)], [transaction_id |-> IntV(1)]}

\* more of them: either verdict, for a transaction that is stored or is not
MoreFeedbackBodies ==
    FeedbackBodies \cup
    {[transaction_id |-> IntV(tid), feedback |-> IntV(v)] : tid \in {1, 2}, v \in {0, 1}}

Endpoints == {"static", "predict", "predict-batch", "health", "warmup", "dashboard",
              "feedback"}

BodiesOf(e) ==
    CASE e = "predict" -> ServerPayloads
      [] e = "predict-batch" -> BatchBodies
      [] e = "feedback" -> FeedbackBodies
      [] OTHER -> {NoneV}

\* the first statement of the view function of endpoint e
Entry(e) ==
    CASE e = "predict" -> "pr_norm"
      [] e = "health" -> "h_emi"
      [] e = "predict-batch" -> "b_start"
      [] e = "warmup" -> "w_emi"
      [] e = "dashboard" -> "d_check"
      [] e = "feedback" -> "f_lookup"
      [] OTHER -> "serve_frontend"

\* the objects some global or some running fit refers to
Live(m, s, r) == ({m, s} \cup {r[t] : t \in Threads}) \ {0}

\* a fresh object
Alloc == CHOOSE i \in 1..(NumThreads + 3) : i \notin Live(model, scaler, ref)

\* a read that never finds the flag set
IsInitialized_Never == FALSE

\* a read of the global `_initialized`
IsInitialized == initialized

Goto(t, label) == pc' = [pc EXCEPT ![t] = label]

\* the view function returns: the response is sent and the thread is free
Respond(t, code, err) ==
    /\ pc' = [pc EXCEPT ![t] = "idle"]
    /\ stack' = [stack EXCEPT ![t] = <<>>]
    /\ resp' = [resp EXCEPT ![t] = MkResp(code, err, FALSE, FALSE, <<>>)]

\* return from the current call to the statement on top of the stack
ReturnFromCall(t) ==
    /\ pc' = [pc EXCEPT ![t] = Head(stack[t])]
    /\ stack' = [stack EXCEPT ![t] = Tail(stack[t])]

Call(t, callee, returnTo) ==
    /\ pc' = [pc EXCEPT ![t] = callee]
    /\ stack' = [stack EXCEPT ![t] = <<returnTo>> \o stack[t]]

\* an exception e raised in thread t propagates to the nearest handler:
\* inside ensure_initialized it is re-raised (line 226) and swallowed by
\* _lazy_before_request (lines 235-237), so the view function runs; inside a
\* view function the outer except answers 500;
\* inside get_dashboard_data its own except takes it (line 625)
Throw(t, e) ==
    IF stack[t] # <<>> /\ stack[t][Len(stack[t])] = "ei_db"
    THEN /\ pc' = [pc EXCEPT ![t] = Entry(ep[t])]
         /\ stack' = [stack EXCEPT ![t] = <<>>]
         /\ resp' = resp
    ELSE IF stack[t] # <<>> /\ Head(stack[t]) = "d_query"
    THEN /\ pc' = [pc EXCEPT ![t] = "d_except"]
         /\ stack' = [stack EXCEPT ![t] = Tail(stack[t])]
         /\ resp' = resp
    ELSE Respond(t, 500, e)

\* a free thread takes the request for endpoint e with the given body
Arrive(t, e, body) ==
    /\ pc[t] = "idle"
    /\ ep' = [ep EXCEPT ![t] = e]
    /\ req' = [req EXCEPT ![t] = body]
    \* _lazy_before_request, lines 231-232: only /api/ paths initialize
    /\ pc' = [pc EXCEPT ![t] = IF e = "static" THEN "serve_frontend" ELSE "ei_check"]
    /\ resp' = [resp EXCEPT ![t] = NoResp]
    /\ late' = [late EXCEPT ![t] = initialized]
    /\ UNCHANGED <<stack, ref, dashLocals, bi, results>>
    /\ UNCHANGED scoreVars
    /\ UNCHANGED globalVars
    /\ UNCHANGED normVars

\* a request arrives
Receive(t) == \E e \in Endpoints : \E body \in BodiesOf(e) : Arrive(t, e, body)

\* a request for one of the scoring endpoints arrives
ReceiveScore(t) ==
    \/ \E body \in ScorePayloads : Arrive(t, "predict", body)
    \/ \E body \in ScoreBatchBodies : Arrive(t, "predict-batch", body)

\* serve_frontend, lines 352-365
ServeFrontend(t) ==
    /\ pc[t] = "serve_frontend"
    /\ Respond(t, 200, "")
    /\ UNCHANGED localVars
    /\ UNCHANGED globalVars
    /\ UNCHANGED normVars

\* ensure_initialized, lines 213-214
EI_Check(t) ==
    /\ pc[t] = "ei_check"
    /\ IF IsInitialized THEN Goto(t, Entry(ep[t])) ELSE Goto(t, "ei_test")
    /\ UNCHANGED <<stack, resp>> /\ UNCHANGED localVars
    /\ UNCHANGED globalVars
    /\ UNCHANGED normVars

\* ensure_initialized, lines 216-218
EI_Test(t) ==
    /\ pc[t] = "ei_test"
    /\ IF model = 0 \/ scaler = 0
       THEN Call(t, "im_check", "ei_db")
       ELSE Goto(t, "ei_db") /\ stack' = stack
    /\ UNCHANGED resp /\ UNCHANGED localVars
    /\ UNCHANGED globalVars
    /\ UNCHANGED normVars

\* ensure_initialized, line 220: init_database creates the tables or raises
EI_Db(t) ==
    /\ pc[t] = "ei_db"
    /\ \/ /\ Goto(t, "ei_set")
          /\ tables' = TRUE
          /\ UNCHANGED <<stack, resp, faults>>
       \/ /\ faults < MaxFaults
          /\ faults' = faults + 1
          /\ pc' = [pc EXCEPT ![t] = Entry(ep[t])]
          /\ UNCHANGED <<stack, resp, tables>>
    /\ UNCHANGED localVars
    /\ UNCHANGED <<modelVars, now, feedbackRows, dashVars>>
    /\ UNCHANGED normVars

\* ensure_initialized, lines 221-222
EI_Set(t) ==
    /\ pc[t] = "ei_set"
    /\ initialized' = TRUE
    /\ Goto(t, Entry(ep[t]))
    /\ UNCHANGED <<stack, resp>> /\ UNCHANGED localVars
    /\ UNCHANGED <<model, scaler, fitted, fitCalls, faults, envVars, dashVars>>
    /\ UNCHANGED normVars

\* ensure_model_initialized, lines 148-151, called by the view function that
\* continues at returnTo
EnsureModelInitialized(t, returnTo) ==
    IF ~IsInitialized
    THEN Call(t, "im_check", returnTo)
    ELSE Goto(t, returnTo) /\ stack' = stack

\* init_model, lines 157-187: the guard, then the synthetic training data
IM_Check(t) ==
    /\ pc[t] = "im_check"
    /\ IF IsInitialized
       THEN ReturnFromCall(t)
       ELSE Goto(t, "im_scaler_new") /\ stack' = stack
    /\ UNCHANGED resp /\ UNCHANGED localVars
    /\ UNCHANGED globalVars
    /\ UNCHANGED normVars

\* init_model, line 190: scaler = StandardScaler()
IM_ScalerNew(t) ==
    /\ pc[t] = "im_scaler_new"
    /\ scaler' = Alloc
    /\ fitted' = fitted \cap Live(model, scaler', ref)
    /\ Goto(t, "im_scaler_fit")
    /\ UNCHANGED <<stack, resp>> /\ UNCHANGED localVars
    /\ UNCHANGED <<model, initialized, fitCalls, faults, envVars, dashVars>>
    /\ UNCHANGED normVars

\* init_model, line 191: scaler.fit_transform is called on the object the
\* global names now; fit starts by resetting the object
IM_ScalerFitBegin(t) ==
    /\ pc[t] = "im_scaler_fit"
    /\ ref' = [ref EXCEPT ![t] = scaler]
    /\ fitted' = fitted \ {scaler}
    /\ Goto(t, "im_scaler_fitting")
    /\ UNCHANGED <<stack, resp, ep, req, late, dashLocals, bi, results>>
    /\ UNCHANGED scoreVars
    /\ UNCHANGED <<model, scaler, initialized, fitCalls, faults, envVars, dashVars>>
    /\ UNCHANGED normVars

\* init_model, line 191: fit_transform returns, or raises
IM_ScalerFitEnd(t) ==
    /\ pc[t] = "im_scaler_fitting"
    /\ ref' = [ref EXCEPT ![t] = 0]
    /\ \/ /\ fitted' = (fitted \cup {ref[t]}) \cap Live(model, scaler, ref')
          /\ Goto(t, "im_model_new")
          /\ UNCHANGED <<stack, resp, faults>>
       \/ /\ faults < MaxFaults
          /\ faults' = faults + 1
          /\ fitted' = fitted \cap Live(model, scaler, ref')
          /\ Throw(t, "FitError")
    /\ UNCHANGED <<ep, req, late, dashLocals, bi, results>>
    /\ UNCHANGED scoreVars
    /\ UNCHANGED <<model, scaler, initialized, fitCalls, envVars, dashVars>>
    /\ UNCHANGED normVars

\* init_model, line 193: model = IsolationForest(...)
IM_ModelNew(t) ==
    /\ pc[t] = "im_model_new"
    /\ model' = Alloc
    /\ fitted' = fitted \cap Live(model', scaler, ref)
    /\ Goto(t, "im_model_fit")
    /\ UNCHANGED <<stack, resp>> /\ UNCHANGED localVars
    /\ UNCHANGED <<scaler, initialized, fitCalls, faults, envVars, dashVars>>
    /\ UNCHANGED normVars

\* init_model, line 194: model.fit is called on the object the global names now
IM_ModelFitBegin(t) ==
    /\ pc[t] = "im_model_fit"
    /\ ref' = [ref EXCEPT ![t] = model]
    /\ fitted' = fitted \ {model}
    /\ Goto(t, "im_model_fitting")
    /\ UNCHANGED <<stack, resp, ep, req, late, dashLocals, bi, results>>
    /\ UNCHANGED scoreVars
    /\ UNCHANGED <<model, scaler, initialized, fitCalls, faults, envVars, dashVars>>
    /\ UNCHANGED normVars

\* init_model, line 194: model.fit returns, or raises
IM_ModelFitEnd(t) ==
    /\ pc[t] = "im_model_fitting"
    /\ ref' = [ref EXCEPT ![t] = 0]
    /\ \/ /\ fitted' = (fitted \cup {ref[t]}) \cap Live(model, scaler, ref')
          /\ fitCalls' = fitCalls + 1
          /\ Goto(t, "im_set")
          /\ UNCHANGED <<stack, resp, faults>>
       \/ /\ faults < MaxFaults
          /\ faults' = faults + 1
          /\ fitted' = fitted \cap Live(model, scaler, ref')
          /\ Throw(t, "FitError")
          /\ UNCHANGED fitCalls
    /\ UNCHANGED <<ep, req, late, dashLocals, bi, results>>
    /\ UNCHANGED scoreVars
    /\ UNCHANGED <<model, scaler, initialized, envVars, dashVars>>
    /\ UNCHANGED normVars

\* init_model, lines 196-199
IM_SetInit(t) ==
    /\ pc[t] = "im_set"
    /\ initialized' = TRUE
    /\ ReturnFromCall(t)
    /\ UNCHANGED resp /\ UNCHANGED localVars
    /\ UNCHANGED <<model, scaler, fitted, fitCalls, faults, envVars, dashVars>>
    /\ UNCHANGED normVars

\* what a call of a method of the object o (a global just read) raises
UseError(o) ==
    IF o = 0 THEN "AttributeError"
    ELSE IF o \notin fitted THEN "NotFittedError"
    ELSE ""

\* the view function returns an error answer
RespondError(t, code, err, msg) ==
    /\ pc' = [pc EXCEPT ![t] = "idle"]
    /\ stack' = [stack EXCEPT ![t] = <<>>]
    /\ resp' = [resp EXCEPT ![t] = ErrorResp(code, err, msg)]

\* the locals of the scoring code are gone when the view function returns
\* or the loop body starts over
DropScore(t) ==
    /\ score' = [score EXCEPT ![t] = 0]
    /\ expl' = [expl EXCEPT ![t] = EmptyDict]

\* model.decision_function on the scaled features x (amount in tenths): the
\* forest is trained on seeded data with random_state=42 (lines 161, 193), so
\* the score is a fixed function of the features.  The training anomalies
\* are the large amounts at unusual hours (lines 175-176); negative scores
\* are the anomalies
ScoreOf(x) ==
    2 - (IF x["amount"] >= 10000 THEN 3 ELSE 0)
      - (IF x["hour"] < 5 \/ x["hour"] > 22 THEN 1 ELSE 0)

\* model.predict(X)[0] == -1
IsAnomaly(s) == s < 0

ZeroExplanation == [f \in {feature_names[i] : i \in 1..Len(feature_names)} |-> 0]

\* the attributions SHAP may compute for a scored item: the background is
\* drawn anew on every call (line 251), so they vary from call to call
ShapExplanations ==
    {[ZeroExplanation EXCEPT !["amount"] = a, !["hour"] = h] : a \in {2, -1}, h \in {1}}

\* an explanation that loses the keys when the attribution raises
get_shap_explanation_EmptyOnError(raises, values) ==
    IF raises THEN EmptyDict ELSE values

\* get_shap_explanation, lines 248-265: the attributions as a dict over
\* feature_names, or all zeros when anything in the try block raised
get_shap_explanation(raises, values) ==
    IF raises THEN ZeroExplanation ELSE values

\* lines 388 / 445: get_shap_explanation is called; the attribution raises
\* when the scaler or the model it reads is not usable, or for a reason of
\* its own
Explain(t) ==
    \/ /\ UseError(scaler) = "" /\ UseError(model) = ""
       /\ \E v \in ShapExplanations :
             expl' = [expl EXCEPT ![t] = get_shap_explanation(FALSE, v)]
       /\ UNCHANGED faults
    \/ /\ UseError(scaler) # "" \/ UseError(model) # ""
       /\ expl' = [expl EXCEPT ![t] = get_shap_explanation(TRUE, ZeroExplanation)]
       /\ UNCHANGED faults
    \/ /\ UseError(scaler) = "" /\ UseError(model) = ""
       /\ faults < MaxFaults
       /\ faults' = faults + 1
       /\ \E v \in ShapExplanations :
             expl' = [expl EXCEPT ![t] = get_shap_explanation(TRUE, v)]

\* predict_anomaly, lines 371-381: the body is normalized (400 with the
\* message for a ValueError), then scaler.transform is called on the global
\* scaler
PR_Transform(t) ==
    /\ pc[t] = "pr_norm"
    /\ LET r == normalize_transaction_payload(hashSeed, req[t]) IN
       IF r.status # "ok"
       THEN RespondError(t, IF r.exc = "ValueError" THEN 400 ELSE 500, r.exc, r.msg)
       ELSE IF UseError(scaler) # "" THEN Respond(t, 500, UseError(scaler))
       ELSE Goto(t, "pr_decision") /\ UNCHANGED <<stack, resp>>
    /\ UNCHANGED localVars
    /\ UNCHANGED globalVars
    /\ UNCHANGED normVars

\* predict_anomaly, line 384: model.decision_function
PR_Decision(t) ==
    /\ pc[t] = "pr_decision"
    /\ IF UseError(model) = ""
       THEN /\ Goto(t, "pr_predict")
            /\ score' = [score EXCEPT ![t] =
                            ScoreOf(normalize_transaction_payload(hashSeed, req[t]).value)]
            /\ UNCHANGED <<stack, resp>>
       ELSE Respond(t, 500, UseError(model)) /\ UNCHANGED score
    /\ UNCHANGED <<ep, req, ref, late, dashLocals, bi, results, expl>>
    /\ UNCHANGED globalVars
    /\ UNCHANGED normVars

\* predict_anomaly, lines 385-388: model.predict, then get_shap_explanation,
\* which swallows whatever the attribution raises
PR_Predict(t) ==
    /\ pc[t] = "pr_predict"
    /\ IF UseError(model) = ""
       THEN /\ Goto(t, "pr_store")
            /\ Explain(t)
            /\ UNCHANGED <<stack, resp, score>>
       ELSE Respond(t, 500, UseError(model)) /\ DropScore(t) /\ UNCHANGED faults
    /\ UNCHANGED <<ep, req, ref, late, dashLocals, bi, results>>
    /\ UNCHANGED <<modelVars, envVars, dashVars>>
    /\ UNCHANGED normVars

\* predict_anomaly, lines 391-418: the record is committed and the result is
\* the answer, or the commit raises
PR_Store(t) ==
    /\ pc[t] = "pr_store"
    /\ \/ /\ pc' = [pc EXCEPT ![t] = "idle"]
          /\ stack' = [stack EXCEPT ![t] = <<>>]
          /\ resp' = [resp EXCEPT ![t] = PredictResp(score[t], expl[t])]
          /\ UNCHANGED faults
       \/ /\ faults < MaxFaults
          /\ faults' = faults + 1
          /\ Respond(t, 500, "DBError")
    /\ DropScore(t)
    /\ UNCHANGED <<ep, req, ref, late, dashLocals, bi, results>>
    /\ UNCHANGED <<modelVars, envVars, dashVars>>
    /\ UNCHANGED normVars

\* health_check, line 272
H_Ensure(t) ==
    /\ pc[t] = "h_emi"
    /\ EnsureModelInitialized(t, "h_db")
    /\ UNCHANGED resp /\ UNCHANGED localVars
    /\ UNCHANGED globalVars
    /\ UNCHANGED normVars

\* health_check, lines 275-289: a failing SELECT 1 is reported, not raised
H_Db(t) ==
    /\ pc[t] = "h_db"
    /\ \/ Respond(t, 200, "") /\ UNCHANGED faults
       \/ /\ faults < MaxFaults
          /\ faults' = faults + 1
          /\ Respond(t, 200, "")
    /\ UNCHANGED localVars
    /\ UNCHANGED <<modelVars, envVars, dashVars>>
    /\ UNCHANGED normVars

\* ---- /api/warmup ----
\* warmup, line 304
W_Ensure(t) ==
    /\ pc[t] = "w_emi"
    /\ EnsureModelInitialized(t, "w_dash")
    /\ UNCHANGED resp /\ UNCHANGED localVars
    /\ UNCHANGED globalVars
    /\ UNCHANGED normVars

\* warmup, line 307: the dashboard view function is called, its answer dropped
W_Dashboard(t) ==
    /\ pc[t] = "w_dash"
    /\ Call(t, "d_check", "w_transform")
    /\ UNCHANGED resp /\ UNCHANGED localVars
    /\ UNCHANGED globalVars
    /\ UNCHANGED normVars

\* warmup, lines 310-320: the fixed test body is normalized, then scaled
W_Transform(t) ==
    /\ pc[t] = "w_transform"
    /\ IF UseError(scaler) # "" THEN Respond(t, 500, UseError(scaler))
       ELSE Goto(t, "w_decision") /\ UNCHANGED <<stack, resp>>
    /\ UNCHANGED localVars
    /\ UNCHANGED globalVars
    /\ UNCHANGED normVars

\* warmup, lines 321-331
W_Decision(t) ==
    /\ pc[t] = "w_decision"
    /\ IF UseError(model) # "" THEN Respond(t, 500, UseError(model))
       ELSE Respond(t, 200, "")
    /\ UNCHANGED localVars
    /\ UNCHANGED globalVars
    /\ UNCHANGED normVars


\* the clock advances in steps of TickSeconds, MaxTicks times
TickSeconds == 20
MaxTicks == 2

\* ---- /api/dashboard ----
DASHBOARD_CACHE_DURATION == 30

\* get_dashboard_data returns r: to warmup when warmup called it (which
\* drops the answer), else to Flask
DashReturn(t, r) ==
    IF stack[t] # <<>>
    THEN ReturnFromCall(t) /\ resp' = resp
    ELSE /\ pc' = [pc EXCEPT ![t] = "idle"]
         /\ stack' = stack
         /\ resp' = [resp EXCEPT ![t] = r]

\* get_dashboard_data, lines 549-552
D_Check(t) ==
    /\ pc[t] = "d_check"
    /\ curTime' = [curTime EXCEPT ![t] = now]
    /\ IF /\ dashCache # "none"
          /\ dashCacheTime # -1
          /\ now - dashCacheTime < DASHBOARD_CACHE_DURATION
       THEN Goto(t, "d_serve")
       ELSE Goto(t, "d_emi")
    /\ UNCHANGED <<stack, resp, ep, req, ref, late, bi, results, genAt, existing>>
    /\ UNCHANGED scoreVars
    /\ UNCHANGED globalVars
    /\ UNCHANGED normVars

\* get_dashboard_data, line 553: the cache as it is now is the answer
D_ServeCached(t) ==
    /\ pc[t] = "d_serve"
    /\ DashReturn(t, DashResp(dashCache = "cached", FALSE, dashGen))
    /\ UNCHANGED localVars
    /\ UNCHANGED globalVars
    /\ UNCHANGED normVars

\* get_dashboard_data, line 556
D_Ensure(t) ==
    /\ pc[t] = "d_emi"
    /\ EnsureModelInitialized(t, "d_query")
    /\ UNCHANGED resp /\ UNCHANGED localVars
    /\ UNCHANGED globalVars
    /\ UNCHANGED normVars

\* get_dashboard_data, lines 558-613: the three queries and the response,
\* with its 'generated_at'
D_Query(t) ==
    /\ pc[t] = "d_query"
    /\ \/ /\ Goto(t, "d_store")
          /\ genAt' = [genAt EXCEPT ![t] = now]
          /\ UNCHANGED <<stack, resp, faults>>
       \/ /\ faults < MaxFaults
          /\ faults' = faults + 1
          /\ Goto(t, "d_except")
          /\ UNCHANGED <<stack, resp, genAt>>
    /\ UNCHANGED <<ep, req, ref, late, curTime, bi, results, existing>>
    /\ UNCHANGED scoreVars
    /\ UNCHANGED <<modelVars, envVars, dashVars>>
    /\ UNCHANGED normVars

\* get_dashboard_data, line 616: _dashboard_cache = response.copy()
D_StoreCopy(t) ==
    /\ pc[t] = "d_store"
    /\ dashCache' = "uncached"
    /\ dashGen' = genAt[t]
    /\ dashStart' = curTime[t]
    /\ Goto(t, "d_mark")
    /\ UNCHANGED <<stack, resp>> /\ UNCHANGED localVars
    /\ UNCHANGED <<modelVars, faults, envVars, dashCacheTime>>
    /\ UNCHANGED normVars

\* get_dashboard_data, line 617: _dashboard_cache['cached'] = True
D_StoreMark(t) ==
    /\ pc[t] = "d_mark"
    /\ dashCache' = "cached"
    /\ Goto(t, "d_time")
    /\ UNCHANGED <<stack, resp>> /\ UNCHANGED localVars
    /\ UNCHANGED <<modelVars, faults, envVars, dashCacheTime, dashGen, dashStart>>
    /\ UNCHANGED normVars

\* get_dashboard_data, lines 618-620
D_StoreTime(t) ==
    /\ pc[t] = "d_time"
    /\ dashCacheTime' = curTime[t]
    /\ DashReturn(t, DashResp(FALSE, FALSE, genAt[t]))
    /\ UNCHANGED localVars
    /\ UNCHANGED <<modelVars, faults, envVars, dashCache, dashGen, dashStart>>
    /\ UNCHANGED normVars

\* a fallback that serves the cache only while it is still fresh
StaleAvailable_FreshOnly ==
    dashCache # "none" /\ now - dashCacheTime < DASHBOARD_CACHE_DURATION

\* line 629: _dashboard_cache is not None
StaleAvailable == dashCache # "none"

\* get_dashboard_data, lines 625-636: the stale cache if there is one, else 500
D_Except(t) ==
    /\ pc[t] = "d_except"
    /\ IF StaleAvailable
       THEN DashReturn(t, DashResp(TRUE, TRUE, dashGen))
       ELSE DashReturn(t, MkResp(500, "Exception", FALSE, FALSE, <<>>))
    /\ UNCHANGED localVars
    /\ UNCHANGED globalVars
    /\ UNCHANGED normVars

\* ---- /api/feedback ----
\* the ids of the rows of table `transactions` (scoring requests add rows
\* with new ids, which no feedback body names)
StoredTransactions == {1}

\* bool(value), line 496
PyBool(v) ==
    CASE v.k = "str" -> v.s # <<>>
      [] v.k \in {"int", "float"} -> v.n # 0
      [] OTHER -> FALSE

\* the ids of the feedback rows of transaction tid, in the table as it is now
RowsOf(tid) == {i \in 1..Len(feedbackRows) : feedbackRows[i].transaction_id = tid}

\* Query.first() of line 509: the row with the lowest id, or None
FirstRowOf(tid) ==
    IF RowsOf(tid) = {} THEN 0
    ELSE CHOOSE i \in RowsOf(tid) : \A j \in RowsOf(tid) : i <= j

\* submit_feedback, lines 490-506: the body is checked, then the transaction
\* is looked up in the database
F_Lookup(t) ==
    /\ pc[t] = "f_lookup"
    /\ IF ~(Has(req[t], "transaction_id") /\ Has(req[t], "feedback"))
       THEN Respond(t, 400, "") /\ UNCHANGED faults
       ELSE IF PyInt(req[t]["transaction_id"]).exc # ""
       THEN Respond(t, IF PyInt(req[t]["transaction_id"]).exc = "ValueError"
                       THEN 400 ELSE 500, PyInt(req[t]["transaction_id"]).exc)
            /\ UNCHANGED faults
       ELSE \/ /\ PyInt(req[t]["transaction_id"]).n \in StoredTransactions
               /\ Goto(t, "f_existing")
               /\ UNCHANGED <<stack, resp, faults>>
            \/ /\ PyInt(req[t]["transaction_id"]).n \notin StoredTransactions
               /\ Respond(t, 404, "")
               /\ UNCHANGED faults
            \/ /\ faults < MaxFaults
               /\ faults' = faults + 1
               /\ Respond(t, 500, "DBError")
    /\ UNCHANGED localVars
    /\ UNCHANGED <<modelVars, envVars, dashVars>>
    /\ UNCHANGED normVars

\* submit_feedback, line 509: the feedback row of the transaction is read
F_Existing(t) ==
    /\ pc[t] = "f_existing"
    /\ \/ /\ existing' = [existing EXCEPT
                             ![t] = FirstRowOf(PyInt(req[t]["transaction_id"]).n)]
          /\ Goto(t, "f_commit")
          /\ UNCHANGED <<stack, resp, faults>>
       \/ /\ faults < MaxFaults
          /\ faults' = faults + 1
          /\ Respond(t, 500, "DBError")
          /\ UNCHANGED existing
    /\ UNCHANGED <<ep, req, ref, late, curTime, genAt, bi, results>>
    /\ UNCHANGED scoreVars
    /\ UNCHANGED <<modelVars, envVars, dashVars>>
    /\ UNCHANGED normVars

\* the table after the commit of lines 512-514 (the row read at line 509 is
\* updated) or of lines 522-527 (a row is added)
Committed(rows, found, tid, value) ==
    IF found # 0
    THEN [rows EXCEPT ![found].feedback = value]
    ELSE Append(rows, [transaction_id |-> tid, feedback |-> value])

\* submit_feedback, lines 510-532: update the row that was read or add one,
\* and commit
F_Commit(t) ==
    /\ pc[t] = "f_commit"
    /\ \/ /\ feedbackRows' = Committed(feedbackRows, existing[t],
                                       PyInt(req[t]["transaction_id"]).n,
                                       PyBool(req[t]["feedback"]))
          /\ Respond(t, 200, "")
          /\ UNCHANGED faults
       \/ /\ faults < MaxFaults
          /\ faults' = faults + 1
          /\ Respond(t, 500, "DBError")
          /\ UNCHANGED feedbackRows
    /\ UNCHANGED localVars
    /\ UNCHANGED <<modelVars, now, tables, dashVars>>
    /\ UNCHANGED normVars

\* ---- /api/predict-batch ----
\* the entries of `results`, lines 465-472 and 474
ItemError(i, e) ==
    [index |-> i, error |-> e, scored |-> FALSE, score |-> 0, expl |-> EmptyDict]
ItemOk(i, s, x) ==
    [index |-> i, error |-> "", scored |-> TRUE, score |-> s, expl |-> x]


\* a loop that stops at the first failing item
ItemFails_Abort(t, e) ==
    /\ results' = [results EXCEPT ![t] = Append(results[t], ItemError(bi[t], e))]
    /\ bi' = [bi EXCEPT ![t] = Len(req[t]["transactions"])]
    /\ Goto(t, "b_item")

\* the except of the loop body (lines 473-474): the item's entry carries the
\* error and the loop goes on
ItemFails(t, e) ==
    /\ results' = [results EXCEPT ![t] = Append(results[t], ItemError(bi[t], e))]
    /\ bi' = [bi EXCEPT ![t] = bi[t] + 1]
    /\ Goto(t, "b_item")

\* predict_batch, lines 428-434
B_Start(t) ==
    /\ pc[t] = "b_start"
    /\ IF req[t] = NoneV
       THEN Respond(t, 500, "TypeError") /\ UNCHANGED <<bi, results>>
       ELSE IF ~Has(req[t], "transactions")
       THEN RespondError(t, 400, "", <<"Missing transactions array">>)
            /\ UNCHANGED <<bi, results>>
       ELSE /\ bi' = [bi EXCEPT ![t] = 0]
            /\ results' = [results EXCEPT ![t] = <<>>]
            /\ Goto(t, "b_item")
            /\ UNCHANGED <<stack, resp>>
    /\ UNCHANGED <<ep, req, ref, late, dashLocals>>
    /\ UNCHANGED scoreVars
    /\ UNCHANGED globalVars
    /\ UNCHANGED normVars

\* predict_batch, lines 436-441 and 476-480: the next item is normalized and
\* scaled; after the last one the results are the answer
B_ItemTransform(t) ==
    /\ pc[t] = "b_item"
    /\ IF bi[t] >= Len(req[t]["transactions"])
       THEN /\ pc' = [pc EXCEPT ![t] = "idle"]
            /\ resp' = [resp EXCEPT ![t] = MkResp(200, "", FALSE, FALSE, results[t])]
            /\ results' = [results EXCEPT ![t] = <<>>]
            /\ bi' = [bi EXCEPT ![t] = 0]
       ELSE LET r == normalize_transaction_payload(hashSeed,
                                                   req[t]["transactions"][bi[t] + 1])
            IN  /\ resp' = resp
                /\ IF r.status # "ok" THEN ItemFails(t, r.exc)
                   ELSE IF UseError(scaler) # "" THEN ItemFails(t, UseError(scaler))
                   ELSE Goto(t, "b_decision") /\ UNCHANGED <<bi, results>>
    /\ UNCHANGED <<stack, ep, req, ref, late, dashLocals>>
    /\ UNCHANGED scoreVars
    /\ UNCHANGED globalVars
    /\ UNCHANGED normVars

\* predict_batch, line 442
B_ItemDecision(t) ==
    /\ pc[t] = "b_decision"
    /\ IF UseError(model) # "" THEN ItemFails(t, UseError(model)) /\ UNCHANGED score
       ELSE /\ Goto(t, "b_predict")
            /\ score' = [score EXCEPT ![t] =
                  ScoreOf(normalize_transaction_payload(
                             hashSeed, req[t]["transactions"][bi[t] + 1]).value)]
            /\ UNCHANGED <<bi, results>>
    /\ UNCHANGED <<stack, resp, ep, req, ref, late, dashLocals, expl>>
    /\ UNCHANGED globalVars
    /\ UNCHANGED normVars

\* predict_batch, lines 443-445
B_ItemPredict(t) ==
    /\ pc[t] = "b_predict"
    /\ IF UseError(model) # ""
       THEN ItemFails(t, UseError(model)) /\ DropScore(t) /\ UNCHANGED faults
       ELSE /\ Goto(t, "b_store")
            /\ Explain(t)
            /\ UNCHANGED <<bi, results, score>>
    /\ UNCHANGED <<stack, resp, ep, req, ref, late, dashLocals>>
    /\ UNCHANGED <<modelVars, envVars, dashVars>>
    /\ UNCHANGED normVars

\* predict_batch, lines 447-472
B_ItemStore(t) ==
    /\ pc[t] = "b_store"
    /\ \/ /\ results' = [results EXCEPT ![t] =
                            Append(results[t], ItemOk(bi[t], score[t], expl[t]))]
          /\ bi' = [bi EXCEPT ![t] = bi[t] + 1]
          /\ Goto(t, "b_item")
          /\ UNCHANGED faults
       \/ /\ faults < MaxFaults
          /\ faults' = faults + 1
          /\ ItemFails(t, "DBError")
    /\ DropScore(t)
    /\ UNCHANGED <<stack, resp, ep, req, ref, late, dashLocals>>
    /\ UNCHANGED <<modelVars, envVars, dashVars>>
    /\ UNCHANGED normVars

\* (the feedback bodies of Receive end in F_Lookup; StepFeedback has the rest)
Step(t) ==
    \/ Receive(t)
    \/ ServeFrontend(t)
    \/ EI_Check(t)
    \/ EI_Test(t)
    \/ EI_Db(t)
    \/ EI_Set(t)
    \/ IM_Check(t)
    \/ IM_ScalerNew(t)
    \/ IM_ScalerFitBegin(t)
    \/ IM_ScalerFitEnd(t)
    \/ IM_ModelNew(t)
    \/ IM_ModelFitBegin(t)
    \/ IM_ModelFitEnd(t)
    \/ IM_SetInit(t)
    \/ PR_Transform(t)
    \/ PR_Decision(t)
    \/ PR_Predict(t)
    \/ PR_Store(t)
    \/ H_Ensure(t)
    \/ H_Db(t)
    \/ W_Ensure(t)
    \/ W_Dashboard(t)
    \/ W_Transform(t)
    \/ W_Decision(t)
    \/ D_Check(t)
    \/ D_ServeCached(t)
    \/ D_Ensure(t)
    \/ D_Query(t)
    \/ D_StoreCopy(t)
    \/ D_StoreMark(t)
    \/ D_StoreTime(t)
    \/ D_Except(t)
    \/ F_Lookup(t)
    \/ B_Start(t)
    \/ B_ItemTransform(t)
    \/ B_ItemDecision(t)
    \/ B_ItemPredict(t)
    \/ B_ItemStore(t)


\* the steps of a thread that serves the scoring endpoints only
StepScore(t) ==
    \/ ReceiveScore(t)
    \/ EI_Check(t)
    \/ EI_Test(t)
    \/ EI_Db(t)
    \/ EI_Set(t)
    \/ IM_Check(t)
    \/ IM_ScalerNew(t)
    \/ IM_ScalerFitBegin(t)
    \/ IM_ScalerFitEnd(t)
    \/ IM_ModelNew(t)
    \/ IM_ModelFitBegin(t)
    \/ IM_ModelFitEnd(t)
    \/ IM_SetInit(t)
    \/ PR_Transform(t)
    \/ PR_Decision(t)
    \/ PR_Predict(t)
    \/ PR_Store(t)
    \/ B_Start(t)
    \/ B_ItemTransform(t)
    \/ B_ItemDecision(t)
    \/ B_ItemPredict(t)
    \/ B_ItemStore(t)


\* time.time() moves on
Tick ==
    /\ now < MaxTicks * TickSeconds
    /\ now' = now + TickSeconds
    /\ UNCHANGED <<modelVars, faults, tables, feedbackRows, dashVars>>
    /\ UNCHANGED threadVars
    /\ UNCHANGED normVars

\* a request for the dashboard arrives
ReceiveDashboard(t) == Arrive(t, "dashboard", NoneV)

\* the steps of a thread that serves /api/dashboard only
StepDash(t) ==
    \/ ReceiveDashboard(t)
    \/ EI_Check(t)
    \/ EI_Test(t)
    \/ EI_Db(t)
    \/ EI_Set(t)
    \/ IM_Check(t)
    \/ IM_ScalerNew(t)
    \/ IM_ScalerFitBegin(t)
    \/ IM_ScalerFitEnd(t)
    \/ IM_ModelNew(t)
    \/ IM_ModelFitBegin(t)
    \/ IM_ModelFitEnd(t)
    \/ IM_SetInit(t)
    \/ D_Check(t)
    \/ D_ServeCached(t)
    \/ D_Ensure(t)
    \/ D_Query(t)
    \/ D_StoreCopy(t)
    \/ D_StoreMark(t)
    \/ D_StoreTime(t)
    \/ D_Except(t)

\* a request for /api/feedback arrives
ReceiveFeedback(t) == \E body \in MoreFeedbackBodies : Arrive(t, "feedback", body)

\* the steps of a thread that serves /api/feedback only
StepFeedback(t) ==
    \/ ReceiveFeedback(t)
    \/ EI_Check(t)
    \/ EI_Test(t)
    \/ EI_Db(t)
    \/ EI_Set(t)
    \/ IM_Check(t)
    \/ IM_ScalerNew(t)
    \/ IM_ScalerFitBegin(t)
    \/ IM_ScalerFitEnd(t)
    \/ IM_ModelNew(t)
    \/ IM_ModelFitBegin(t)
    \/ IM_ModelFitEnd(t)
    \/ IM_SetInit(t)
    \/ F_Lookup(t)
    \/ F_Existing(t)
    \/ F_Commit(t)

Init ==
    /\ hashSeed = 0
    /\ nraw = NoneV
    /\ nresult = NotCalled
    /\ narg = NoneV
    /\ run = 1
    /\ calls = <<>>
    /\ InitLambda
    /\ InitGlobals
    /\ InitThreads

Next == \E t \in Threads : Step(t)

Spec == Init /\ [][Next]_vars

NextScore == \E t \in Threads : StepScore(t)

\* the worker with traffic for /api/predict and /api/predict-batch only
SpecScore == Init /\ [][NextScore]_vars

NextDash == Tick \/ \E t \in Threads : StepDash(t)

\* the worker with traffic for /api/dashboard only, and a clock
SpecDash == Init /\ [][NextDash]_vars

NextFeedback == \E t \in Threads : StepFeedback(t)

\* the worker with traffic for /api/feedback only
SpecFeedback == Init /\ [][NextFeedback]_vars

\* ------------------------------------------------------------------------
\* The serverless handler (src/lambda/lambda_function.py)
\* ------------------------------------------------------------------------
\* the characters of the words that paths and ids are made of
Word(str) ==
    CASE str = "" -> <<>>
      [] str = "api" -> <<"a", "p", "i">>
      [] str = "health" -> <<"h", "e", "a", "l", "t", "h">>
      [] str = "predict" -> <<"p", "r", "e", "d", "i", "c", "t">>
      [] str = "predict-batch" -> <<"p", "r", "e", "d", "i", "c", "t", "-", "b", "a", "t", "c", "h">>
      [] str = "feedback" -> <<"f", "e", "e", "d", "b", "a", "c", "k">>
      [] str = "dashboard" -> <<"d", "a", "s", "h", "b", "o", "a", "r", "d">>
      [] str = "transactions" -> <<"t", "r", "a", "n", "s", "a", "c", "t", "i", "o", "n", "s">>
      [] str = "analytics" -> <<"a", "n", "a", "l", "y", "t", "i", "c", "s">>
      [] str = "search" -> <<"s", "e", "a", "r", "c", "h">>
      [] str = "fraud-check" -> <<"f", "r", "a", "u", "d", "-", "c", "h", "e", "c", "k">>
      [] str = "compliance" -> <<"c", "o", "m", "p", "l", "i", "a", "n", "c", "e">>
      [] str = "report" -> <<"r", "e", "p", "o", "r", "t">>
      [] str = "prod" -> <<"p", "r", "o", "d">>
      [] str = "production" -> <<"p", "r", "o", "d", "u", "c", "t", "i", "o", "n">>
      [] str = "unknown" -> <<"u", "n", "k", "n", "o", "w", "n">>
      [] str = "invalid-id" -> <<"i", "n", "v", "a", "l", "i", "d", "-", "i", "d">>
      [] str = "tx_100000" -> <<"t", "x", "_", "1", "0", "0", "0", "0", "0">>
      [] str = "tx_999999" -> <<"t", "x", "_", "9", "9", "9", "9", "9", "9">>

\* "/" + segs[1] + "/" + segs[2] + ...
RECURSIVE PathOf(_)
PathOf(segs) ==
    IF segs = <<>> THEN <<>>
    ELSE <<"/">> \o Word(Head(segs)) \o PathOf(Tail(segs))

\* cs.startswith(prefix)
StartsWith(cs, prefix) ==
    Len(cs) >= Len(prefix) /\ SubSeq(cs, 1, Len(prefix)) = prefix

\* cs.split('/')[-1]
RECURSIVE LastSegment(_)
LastSegment(cs) ==
    IF cs = <<>> \/ cs[Len(cs)] = "/" THEN <<>>
    ELSE LastSegment(SubSeq(cs, 1, Len(cs) - 1)) \o <<cs[Len(cs)]>>

\* body.get(key, default), default being a number
Get(d, key, default) == IF Has(d, key) THEN d[key] ELSE IntV(default)

\* random.uniform(0.1, 0.3), in tenths
Uniform == 1..3

\* f"tx_{random.randint(100000, 999999)}"
TransactionIds == {Word("tx_100000"), Word("tx_999999")}

\* handle_predict, lines 67-82: [is_anomaly, anomaly_score, risk_level] for
\* amount (in tenths), hour and the draw u of random.uniform
RuleOf_HourFirst(amount, hour, u) ==
    IF hour < 6 \/ hour > 22 THEN <<TRUE, 6, "Medium">>
    ELSE IF amount > 10000 THEN <<TRUE, 8, "High">>
    ELSE IF amount < 10 THEN <<TRUE, 4, "Medium">>
    ELSE <<FALSE, u, "Low">>

RuleOf(amount, hour, u) ==
    IF amount > 10000 THEN <<TRUE, 8, "High">>
    ELSE IF hour < 6 \/ hour > 22 THEN <<TRUE, 6, "Medium">>
    ELSE IF amount < 10 THEN <<TRUE, 4, "Medium">>
    ELSE <<FALSE, u, "Low">>

\* handle_predict, lines 53-57: a conversion of a feature raises
FeatureError(d) ==
    \/ PyFloat(Get(d, "amount", 0)).exc # ""
    \/ PyInt(Get(d, "hour", 12)).exc # ""
    \/ PyInt(Get(d, "day_of_week", 1)).exc # ""
    \/ PyInt(Get(d, "merchant_category", 0)).exc # ""
    \/ PyInt(Get(d, "transaction_type", 0)).exc # ""

\* handle_predict: the responses it may return for the event
handle_predict(e) ==
    IF e.body.kind = "absent"
    THEN {LambdaResponse("predict", 500, CorsOrigin, TRUE)}
    ELSE IF e.body.kind \in {"none", "invalid"}
    THEN {LambdaResponse("predict", 400, CorsOrigin, TRUE)}
    ELSE IF e.body.kind = "list" \/ FeatureError(e.body.d)
    THEN {LambdaResponse("predict", 500, CorsOrigin, TRUE)}
    ELSE {[LambdaResponse("predict", 200, CorsAll, FALSE) EXCEPT
              !.transaction_id = id,
              !.is_anomaly = RuleOf(PyFloat(Get(e.body.d, "amount", 0)).n,
                                    PyInt(Get(e.body.d, "hour", 12)).n, u)[1],
              !.anomaly_score = RuleOf(PyFloat(Get(e.body.d, "amount", 0)).n,
                                       PyInt(Get(e.body.d, "hour", 12)).n, u)[2],
              !.risk_level = RuleOf(PyFloat(Get(e.body.d, "amount", 0)).n,
                                    PyInt(Get(e.body.d, "hour", 12)).n, u)[3]] :
            id \in TransactionIds, u \in Uniform}

\* handle_get_transaction, lines 378-400: the id is the last segment of
\* event['path'] ('' without one) and the answer is a made-up transaction
handle_get_transaction(e) ==
    {[LambdaResponse("get_transaction", 200, CorsOrigin, FALSE) EXCEPT
         !.transaction_id = LastSegment(IF e.path = ABSENT THEN <<>> ELSE e.path.s)]}

\* handle_fraud_check, lines 490-497: risk_score, in tenths (0.1 + 0.4 and
\* 0.5 + 0.3 are exact in binary floating point)
RiskScore(amount) ==
    1 + (IF amount > 50000 THEN 4 ELSE 0) + (IF amount > 100000 THEN 3 ELSE 0)

\* handle_fraud_check, lines 507-510
RiskFactors(amount) ==
    (IF amount > 50000 THEN <<"High amount transaction">> ELSE <<>>)
        \o (IF amount > 100000 THEN <<"Very high amount transaction">> ELSE <<>>)

handle_fraud_check(e) ==
    IF \/ e.body.kind \in {"none", "invalid", "list"}
       \/ PyFloat(Get(e.body.d, "amount", 0)).exc # ""
    THEN {LambdaResponse("fraud_check", 400, CorsOrigin, TRUE)}
    ELSE {[LambdaResponse("fraud_check", 200, CorsOrigin, FALSE) EXCEPT
              !.transaction_id = id,
              !.fraud_score = RiskScore(PyFloat(Get(e.body.d, "amount", 0)).n),
              !.is_suspicious = RiskScore(PyFloat(Get(e.body.d, "amount", 0)).n) > 5,
              !.risk_factors = RiskFactors(PyFloat(Get(e.body.d, "amount", 0)).n),
              !.recommendation =
                  IF RiskScore(PyFloat(Get(e.body.d, "amount", 0)).n) > 5
                  THEN "review" ELSE "approve"] :
            id \in TransactionIds}

\* the other handlers: the statusCode and headers of each of their return
\* statements (which one is taken depends on the body and on DynamoDB)
Returns(h) ==
    CASE h \in {"health", "root"} -> {<<200, CorsAll>>}
      [] h \in {"dashboard", "transactions"} -> {<<200, CorsAll>>, <<500, CorsOrigin>>}
      [] h = "create_transaction" -> {<<201, CorsOrigin>>, <<400, CorsOrigin>>}
      [] h \in {"analytics", "compliance", "compliance_report"} -> {<<200, CorsOrigin>>}
      [] h = "search" -> {<<200, CorsOrigin>>, <<500, CorsOrigin>>}
      [] h = "predict_batch" ->
            {<<400, CorsOrigin>>, <<200, CorsOrigin>>, <<500, CorsOrigin>>}
      [] h = "feedback" ->
            {<<400, CorsOrigin>>, <<201, CorsOrigin>>, <<500, CorsOrigin>>}

handle_other(h) == {LambdaResponse(h, r[1], r[2], r[1] >= 400) : r \in Returns(h)}

\* lambda_handler, line 740
Method(e) == IF e.httpMethod = "absent" THEN "GET" ELSE e.httpMethod

\* lambda_handler, lines 741-750
PathIn(e) ==
    IF e.rcPath # ABSENT
    THEN IF StartsWith(e.rcPath.s, PathOf(<<"prod">>))
         THEN SubSeq(e.rcPath.s, 6, Len(e.rcPath.s))
         ELSE e.rcPath.s
    ELSE IF e.path = ABSENT THEN <<"/">> ELSE e.path.s

\* lambda_handler, lines 767-772
NormalizedPath(path) ==
    IF ~StartsWith(path, PathOf(<<"api", "">>)) /\ path # <<"/">>
    THEN IF StartsWith(path, <<"/">>)
         THEN PathOf(<<"api">>) \o path
         ELSE PathOf(<<"api", "">>) \o path
    ELSE path

\* either spelling of a route's path
Both(segs) == {PathOf(<<"api">> \o segs), PathOf(segs)}

RouteOf_AnyMethod(np, m) ==
    IF np \in Both(<<"health">>) THEN "health"
    ELSE IF np = <<"/">> THEN "root"
    ELSE IF np = PathOf(<<"api", "predict">>) THEN "predict"
    ELSE IF np \in Both(<<"predict-batch">>) THEN "predict_batch"
    ELSE IF np \in Both(<<"feedback">>) THEN "feedback"
    ELSE IF np = PathOf(<<"api", "dashboard">>) THEN "dashboard"
    ELSE IF np \in Both(<<"transactions">>) THEN "transactions"
    ELSE IF StartsWith(np, PathOf(<<"api", "transactions", "">>)) THEN "get_transaction"
    ELSE IF np \in Both(<<"analytics">>) THEN "analytics"
    ELSE IF np \in Both(<<"search">>) THEN "search"
    ELSE IF np \in Both(<<"fraud-check">>) THEN "fraud_check"
    ELSE IF np \in Both(<<"compliance">>) THEN "compliance"
    ELSE IF np \in Both(<<"compliance", "report">>) THEN "compliance_report"
    ELSE "none"

\* lambda_handler, lines 775-803: the handler the request is routed to
RouteOf(np, m) ==
    IF np \in Both(<<"health">>) THEN "health"
    ELSE IF np = <<"/">> THEN "root"
    ELSE IF np = PathOf(<<"api", "predict">>) /\ m = "POST" THEN "predict"
    ELSE IF np \in Both(<<"predict-batch">>) /\ m = "POST" THEN "predict_batch"
    ELSE IF np \in Both(<<"feedback">>) /\ m = "POST" THEN "feedback"
    ELSE IF np = PathOf(<<"api", "dashboard">>) /\ m = "GET" THEN "dashboard"
    ELSE IF np \in Both(<<"transactions">>) /\ m = "GET" THEN "transactions"
    ELSE IF np \in Both(<<"transactions">>) /\ m = "POST" THEN "create_transaction"
    ELSE IF StartsWith(np, PathOf(<<"api", "transactions", "">>)) /\ m = "GET"
    THEN "get_transaction"
    ELSE IF np \in Both(<<"analytics">>) /\ m = "GET" THEN "analytics"
    ELSE IF np \in Both(<<"search">>) /\ m = "GET" THEN "search"
    ELSE IF np \in Both(<<"fraud-check">>) /\ m = "POST" THEN "fraud_check"
    ELSE IF np \in Both(<<"compliance">>) /\ m = "GET" THEN "compliance"
    ELSE IF np \in Both(<<"compliance", "report">>) /\ m = "GET" THEN "compliance_report"
    ELSE "none"

\* lambda_handler: the responses it may return for the event
lambda_handler(e) ==
    IF Method(e) = "OPTIONS"
    THEN {LambdaResponse("preflight", 200, CorsPreflight, FALSE)}
    ELSE LET h == RouteOf(NormalizedPath(PathIn(e)), Method(e)) IN
         CASE h = "none" -> {LambdaResponse("none", 404, CorsOrigin, TRUE)}
           [] h = "predict" -> handle_predict(e)
           [] h = "get_transaction" -> handle_get_transaction(e)
           [] h = "fraud_check" -> handle_fraud_check(e)
           [] OTHER -> handle_other(h)

\* handle_predict, lines 98-117: put_item stores the transaction or fails,
\* and the response is returned either way
StoredAfter(stored, r) ==
    IF r.handler = "predict" /\ r.statusCode = 200
    THEN {stored, stored \cup {r.transaction_id}}
    ELSE {stored}

\* ---- the events ----
Methods == {"GET", "POST", "OPTIONS", "DELETE", "absent"}

DictBody(d) == [kind |-> "dict", d |-> d]

EventPaths ==
    {<<>>, <<"/">>, Word("health"), PathOf(<<"api", "health">>) \o <<"/">>}
    \cup UNION {Both(segs) : segs \in
            {<<"health">>, <<"predict">>, <<"predict-batch">>, <<"feedback">>,
             <<"dashboard">>, <<"transactions">>, <<"transactions", "">>,
             <<"transactions", "invalid-id">>, <<"transactions", "tx_100000">>,
             <<"analytics">>, <<"search">>, <<"fraud-check">>, <<"compliance">>,
             <<"compliance", "report">>, <<"unknown">>}}

ContextPaths ==
    {PathOf(<<"prod", "predict">>), PathOf(<<"prod", "api", "unknown">>),
     PathOf(<<"production">>), PathOf(<<"api", "transactions", "tx_999999">>)}

Amounts == {ABSENT, IntV(0), FloatV(5), IntV(1), IntV(50), IntV(1000), IntV(1001),
            IntV(5000), IntV(6000), IntV(10000), IntV(10001), StrV(Chars("abc"))}
Hours == {ABSENT, IntV(3), IntV(5), IntV(6), IntV(14), IntV(22), FloatV(225), IntV(23)}

\* a JSON object with the given amount and hour (ABSENT: without the key)
FeatureBody(a, h) ==
    [k \in (IF a = ABSENT THEN {} ELSE {"amount"}) \cup
           (IF h = ABSENT THEN {} ELSE {"hour"}) |->
        IF k = "amount" THEN a ELSE h]

\* amount=50, hour=14, day_of_week=2, merchant_category=5, transaction_type=1
NormalExample ==
    [amount |-> IntV(50), hour |-> IntV(14), day_of_week |-> IntV(2),
     merchant_category |-> IntV(5), transaction_type |-> IntV(1)]

Bodies ==
    {[kind |-> k, d |-> EmptyDict] : k \in {"absent", "none", "invalid", "list"}}
    \cup {DictBody(FeatureBody(a, h)) : a \in Amounts, h \in Hours}
    \cup {DictBody(NormalExample)}

Events ==
    {[httpMethod |-> m, path |-> StrV(p), rcPath |-> ABSENT, body |-> NoBody] :
        m \in Methods, p \in EventPaths}
    \cup {[httpMethod |-> "POST", path |-> StrV(p), rcPath |-> ABSENT, body |-> b] :
            p \in {PathOf(<<"predict">>), PathOf(<<"fraud-check">>)}, b \in Bodies}
    \cup {[httpMethod |-> m, path |-> p, rcPath |-> StrV(c), body |-> NoBody] :
            m \in {"GET", "POST"}, p \in {ABSENT, StrV(<<"/">>)}, c \in ContextPaths}
    \cup {[httpMethod |-> "GET", path |-> ABSENT, rcPath |-> ABSENT, body |-> NoBody]}

\* API Gateway invokes lambda_handler with an event
Invoke ==
    /\ \E e \in Events : \E r \in lambda_handler(e) :
          /\ event' = e
          /\ lresp' = r
          /\ lstored' \in StoredAfter(lstored, r)
    /\ UNCHANGED <<hashSeed, nraw, nresult, narg, run, calls>>
    /\ UNCHANGED globalVars
    /\ UNCHANGED threadVars

NextLambda == Invoke

\* the serverless handler on its own
SpecLambda == Init /\ [][NextLambda]_vars

\* ------------------------------------------------------------------------
\* Properties of the server (Spec)
\* ------------------------------------------------------------------------
ItemErrors(r) == {r.results[i].error : i \in 1..Len(r.results)}

\* the errors a request's answer reports, as its own error or as an item's
ErrorsOf(t) == {resp[t].err} \cup ItemErrors(resp[t])

\* C1: the training in init_model runs at most once per process, whatever
\* the interleaving of the first requests
C1_TrainsAtMostOnce == fitCalls <= 1

\* C2: no request calls a method of a scaler or model that is assigned but
\* not fitted.  Stated for the runs in which no call raises, so that only the
\* interleaving of the requests can break it
C2_NeverSeesUnfitted ==
    faults = 0 => \A t \in Threads : "NotFittedError" \notin ErrorsOf(t)

\* thread t takes a step
Stepped(t) ==
    <<pc[t], stack[t], ref[t], resp[t], bi[t], results[t], curTime[t]>>'
        # <<pc[t], stack[t], ref[t], resp[t], bi[t], results[t], curTime[t]>>

\* C3: a request that arrives once _initialized is set leaves the model and
\* the scaler (the objects and their fitted state) as they are, whatever the
\* endpoint and whatever the other threads are doing
C3_LateRequestsLeaveModel ==
    [][\A t \in Threads :
          (late[t] /\ pc[t] # "idle" /\ Stepped(t))
              => (model' = model /\ scaler' = scaler /\ fitted' = fitted)]_vars

\* C3 witness: a late health request is past ensure_initialized and
\* ensure_model_initialized, and the model it left alone is the fitted one
C3_Witness ==
    \E t \in Threads :
        /\ late[t] /\ ep[t] = "health" /\ pc[t] = "h_db"
        /\ model \in fitted /\ scaler \in fitted

\* C4: the scoring code of /api/predict and /api/predict-batch never runs on a
\* scaler or model that is None or not fitted
C4_ScoringOnlyWhenFitted ==
    \A t \in Threads :
        ep[t] \in {"predict", "predict-batch"}
            => ErrorsOf(t) \cap {"AttributeError", "NotFittedError"} = {}

\* ------------------------------------------------------------------------
\* Properties of the normalizer (SpecNorm)
\* ------------------------------------------------------------------------
Called == nresult.status # "none"

Given(key) == nraw # NoneV /\ key \in DOMAIN nraw

\* the message contains the field name
Names(msg, field) == \E i \in 1..Len(msg) : msg[i] = field

TsExample == StrV(Chars("2024-03-04T15:30:00Z"))
TsSunday == StrV(Chars("2023-01-01 23:05+05:30"))
ValidTimestamps == {TsExample, TsSunday}

\* the hour and the weekday (Monday = 0) those timestamps denote
ExpectedHour(ts) == IF ts = TsExample THEN 15 ELSE 23
ExpectedDay(ts) == IF ts = TsExample THEN 0 ELSE 6

\* C5: without the amount key the call raises the ValueError that names
\* amount and nothing else, whatever else the payload has or lacks
C5_MissingAmountFails ==
    (Called /\ ~Given("amount")) =>
        /\ nresult.status = "raise"
        /\ nresult.exc = "ValueError"
        /\ nresult.msg = <<"Missing required field: ", "amount">>

\* C5 witness: amount is absent while other fields could be derived or are
\* missing too, and the call has raised
C5_Witness ==
    /\ Called /\ ~Given("amount")
    /\ Given("timestamp") /\ Given("category") /\ ~Given("hour")
    /\ nresult.status = "raise"

\* C6 as stated: amount and a valid timestamp alone normalize successfully
C6_TimestampOnlySucceeds ==
    (Called /\ nraw # NoneV /\ DOMAIN nraw = {"amount", "timestamp"}
        /\ nraw["amount"] = IntV(42) /\ nraw["timestamp"] \in ValidTimestamps)
    => /\ nresult.status = "ok"
       /\ nresult.value["hour"] = ExpectedHour(nraw["timestamp"])
       /\ nresult.value["day_of_week"] = ExpectedDay(nraw["timestamp"])

\* C6 amended: amount and a valid timestamp alone fail with the missing-field
\* error that names merchant_category only (hour, day_of_week and
\* transaction_type are filled in); with category or merchant added the call
\* succeeds with the timestamp's hour and weekday and transaction_type 0
C6_TimestampNeedsCategory ==
    (Called /\ nraw # NoneV /\ Given("amount") /\ nraw["amount"] = IntV(42)
        /\ Given("timestamp") /\ nraw["timestamp"] \in ValidTimestamps)
    => /\ DOMAIN nraw = {"amount", "timestamp"} =>
            /\ nresult.status = "raise"
            /\ nresult.exc = "ValueError"
            /\ nresult.msg = <<"Missing required field(s): ", "merchant_category">>
       /\ (DOMAIN nraw \in {{"amount", "timestamp", "category"},
                            {"amount", "timestamp", "merchant"},
                            {"amount", "timestamp", "category", "merchant"}}) =>
            /\ nresult.status = "ok"
            /\ nresult.value["amount"] = 420
            /\ nresult.value["hour"] = ExpectedHour(nraw["timestamp"])
            /\ nresult.value["day_of_week"] = ExpectedDay(nraw["timestamp"])
            /\ nresult.value["transaction_type"] = 0

\* C6 witness: the example payload with a category has been normalized
C6_Witness ==
    /\ nraw = [amount |-> IntV(42), timestamp |-> TsExample,
               category |-> StrV(Chars("food"))]
    /\ nresult.status = "ok"
    /\ nresult.value["hour"] = 15
    /\ nresult.value["day_of_week"] = 0

\* C7: with a parseable timestamp, an absent hour / day_of_week is the
\* timestamp's and one the payload gives is kept: neither is ever reported
\* missing, a successful result carries the given or else the derived value,
\* and a given null hour is not replaced (so the call cannot succeed)
C7_TimestampFillsAbsentOnly ==
    (Called /\ Given("amount") /\ Given("timestamp")
        /\ nraw["timestamp"] \in ValidTimestamps
        /\ (~Given("hour") \/ ~Given("day_of_week")))
    => /\ ~Names(nresult.msg, "hour")
       /\ ~Names(nresult.msg, "day_of_week")
       /\ nresult.status = "ok" =>
            /\ nresult.value["hour"] =
                  IF Given("hour") THEN nraw["hour"].n
                  ELSE ExpectedHour(nraw["timestamp"])
            /\ nresult.value["day_of_week"] =
                  IF Given("day_of_week") THEN nraw["day_of_week"].n
                  ELSE ExpectedDay(nraw["timestamp"])
       /\ (Given("hour") /\ nraw["hour"] = NoneV) => nresult.status = "raise"

\* C7 witness: hour given, day_of_week derived, the call succeeded
C7_Witness ==
    /\ Called /\ Given("hour") /\ ~Given("day_of_week") /\ Given("timestamp")
    /\ nraw["timestamp"] = TsSunday
    /\ nresult.status = "ok"
    /\ nresult.value["hour"] = 9
    /\ nresult.value["day_of_week"] = 6

\* C8: with a timestamp that does not parse (a malformed string, an
\* impossible date, a number), the call raises the missing-field ValueError
\* of the final validation, which names exactly the absent ones of hour and
\* day_of_week
C8_BadTimestampLeavesAbsent ==
    (Called /\ Given("amount") /\ Given("timestamp")
        /\ nraw["timestamp"] \notin ValidTimestamps
        /\ (~Given("hour") \/ ~Given("day_of_week")))
    => /\ nresult.status = "raise"
       /\ nresult.exc = "ValueError"
       /\ nresult.msg[1] = "Missing required field(s): "
       /\ Names(nresult.msg, "hour") <=> ~Given("hour")
       /\ Names(nresult.msg, "day_of_week") <=> ~Given("day_of_week")

\* C8 witness: a numeric timestamp, hour and day_of_week absent, both named
C8_Witness ==
    /\ Called /\ Given("amount") /\ Given("timestamp")
    /\ nraw["timestamp"] = IntV(1700000000)
    /\ ~Given("hour") /\ ~Given("day_of_week")
    /\ Names(nresult.msg, "hour") /\ Names(nresult.msg, "day_of_week")

\* the code of the str() of v under this process's hash
CodeOf(v, modulus) == Abs(PyHash(hashSeed, PyStr(v))) % modulus

\* C9: merchant_category is the given one, else the code of category, else
\* the code of merchant; with none of the three the call fails naming
\* merchant_category, and with any of them it is never reported missing
C9_MerchantCategorySource ==
    (Called /\ Given("amount"))
    => /\ (~Given("merchant_category") /\ ~Given("category") /\ ~Given("merchant"))
            => (nresult.status = "raise" /\ Names(nresult.msg, "merchant_category"))
       /\ (Given("merchant_category") \/ Given("category") \/ Given("merchant"))
            => ~Names(nresult.msg, "merchant_category")
       /\ nresult.status = "ok" =>
            nresult.value["merchant_category"] =
                IF Given("merchant_category") THEN nraw["merchant_category"].n
                ELSE IF Given("category") THEN CodeOf(nraw["category"], 10)
                ELSE CodeOf(nraw["merchant"], 10)

\* C9 witness: category and merchant both given with different codes, no
\* merchant_category, and the result carries the code of category
C9_Witness ==
    /\ Called /\ nresult.status = "ok"
    /\ ~Given("merchant_category") /\ Given("category") /\ Given("merchant")
    /\ CodeOf(nraw["category"], 10) # CodeOf(nraw["merchant"], 10)
    /\ nresult.value["merchant_category"] = CodeOf(nraw["category"], 10)

\* C10: transaction_type is the given one, else the code of type modulo 3
\* (0, 1 or 2), else 0, and it is never reported missing
C10_TransactionTypeDefault ==
    Called
    => /\ ~Names(nresult.msg, "transaction_type")
       /\ nresult.status = "ok" =>
            /\ nresult.value["transaction_type"] =
                  IF Given("transaction_type") THEN nraw["transaction_type"].n
                  ELSE IF Given("type") THEN CodeOf(nraw["type"], 3)
                  ELSE 0
            /\ ~Given("transaction_type") => nresult.value["transaction_type"] \in {0, 1, 2}

\* C10 witness: type given without transaction_type, a nonzero code derived
C10_Witness ==
    /\ Called /\ nresult.status = "ok"
    /\ ~Given("transaction_type") /\ Given("type")
    /\ nresult.value["transaction_type"] \in {1, 2}

\* the feature is still absent after the derivation steps: hour and
\* day_of_week are filled from a parseable timestamp, merchant_category from
\* category or merchant, transaction_type always
StillAbsent(f) ==
    CASE f \in {"hour", "day_of_week"} ->
            ~Given(f) /\ ~(Given("timestamp") /\ nraw["timestamp"] \in ValidTimestamps)
      [] f = "merchant_category" ->
            ~Given(f) /\ ~Given("category") /\ ~Given("merchant")
      [] f = "transaction_type" -> FALSE
      [] OTHER -> ~Given(f)

Features == {feature_names[i] : i \in 1..Len(feature_names)}

\* C11: once amount is there, the final validation raises one ValueError
\* whose message names every feature still absent after the derivations and
\* no other, and the call gets past it (succeeds, or fails in the coercion)
\* only when none is absent
C11_AllMissingNamed ==
    (Called /\ Given("amount"))
    => IF \E f \in Features : StillAbsent(f)
       THEN /\ nresult.status = "raise"
            /\ nresult.exc = "ValueError"
            /\ nresult.msg[1] = "Missing required field(s): "
            /\ \A f \in Features : Names(nresult.msg, f) <=> StillAbsent(f)
       ELSE nresult.status = "ok" \/ nresult.msg[1] # "Missing required field(s): "

\* C11 witness: hour, day_of_week and merchant_category are all absent after
\* the derivations, and the one error names the three
C11_Witness ==
    /\ Called /\ Given("amount")
    /\ StillAbsent("hour") /\ StillAbsent("day_of_week") /\ StillAbsent("merchant_category")
    /\ nresult.status = "raise"
    /\ nresult.msg = <<"Missing required field(s): ", "hour", ", ", "day_of_week", ", ",
                       "merchant_category">>

\* ------------------------------------------------------------------------
\* Properties of the hashing code (SpecHash)
\* ------------------------------------------------------------------------
CallIdx == 1..Len(calls)

SameCall(i, j) ==
    /\ calls[i].fn = calls[j].fn
    /\ calls[i].arg = calls[j].arg
    /\ calls[i].raw = calls[j].raw
    /\ calls[i].modulus = calls[j].modulus

\* C13: within one process run two calls of _stable_category_code with the
\* same value and modulus return the same code, and every code c returned
\* for modulus m (10 or 3) is an integer with 0 <= c < m
C13_CodePureAndInRange ==
    /\ \A i \in CallIdx : calls[i].fn = "code" =>
          calls[i].code \in 0..(calls[i].modulus - 1)
    /\ \A i, j \in CallIdx :
          (calls[i].fn = "code" /\ SameCall(i, j) /\ calls[i].run = calls[j].run)
              => calls[i].code = calls[j].code

\* C13 witness: the same string was coded twice in one run, modulo 3, and
\* both calls returned the same nonzero code
C13_Witness ==
    \E i, j \in CallIdx :
        /\ i < j /\ calls[i].fn = "code" /\ SameCall(i, j) /\ calls[i].run = calls[j].run
        /\ calls[i].arg # NoneV /\ calls[i].modulus = 3
        /\ calls[i].code = calls[j].code /\ calls[i].code \in {1, 2}

\* C14: two process runs give the same string the same code, directly and
\* as the merchant_category / transaction_type of a normalized payload
C14_CodeStableAcrossRuns ==
    \A i, j \in CallIdx :
        SameCall(i, j) => (calls[i].code = calls[j].code /\ calls[i].ttype = calls[j].ttype)

Answered(t, e) == ep[t] = e /\ pc[t] = "idle" /\ resp[t].code # 0

\* the body carries the five features, and one of them does not convert
Uncoercible(body) ==
    /\ body # NoneV
    /\ \A f \in Features : f \in DOMAIN body
    /\ \/ PyFloat(body["amount"]).exc # ""
       \/ \E f \in Features \ {"amount"} : PyInt(body[f]).exc # ""

\* C12: a payload with the five features of which one does not convert is
\* answered 400 by /api/predict, with an error text that names a field
C12_CoercionErrorNamed400 ==
    \A t \in Threads :
        (Answered(t, "predict") /\ Uncoercible(req[t]))
            => /\ resp[t].code = 400
               /\ \E f \in Features : Names(resp[t].msg, f)

\* the entry is the one of a transaction that normalizes to x and was
\* scored, or of one that failed with one of the errors
EntryOf(entry, i, raw) ==
    LET n == normalize_transaction_payload(hashSeed, raw) IN
    /\ entry.index = i
    /\ IF n.status # "ok"
       THEN ~entry.scored /\ entry.error = n.exc
       ELSE \/ /\ entry.scored /\ entry.error = ""
               /\ entry.score = ScoreOf(n.value)
            \/ /\ ~entry.scored
               /\ entry.error \in {"AttributeError", "NotFittedError", "DBError"}

\* C16: the results of a batch have one entry per transaction, in order,
\* entry i with index i; a transaction that fails has an entry with the error
\* and no score, and every other entry is what its own transaction gives
\* (its score, or its own error), during the loop and in the answer
C16_BatchEntryPerItem ==
    \A t \in Threads :
        /\ pc[t] \in {"b_item", "b_decision", "b_predict", "b_store"} =>
              /\ Len(results[t]) = bi[t]
              /\ bi[t] <= Len(req[t]["transactions"])
              /\ \A i \in 1..Len(results[t]) :
                    EntryOf(results[t][i], i - 1, req[t]["transactions"][i])
        /\ (Answered(t, "predict-batch") /\ resp[t].code = 200) =>
              /\ Len(resp[t].results) = Len(req[t]["transactions"])
              /\ \A i \in 1..Len(resp[t].results) :
                    EntryOf(resp[t].results[i], i - 1, req[t]["transactions"][i])

\* C16 witness: three transactions, the middle one without amount; the
\* answer has the score of the first, the error of the second and the
\* (different) score of the third
C16_Witness ==
    \E t \in Threads :
        /\ Answered(t, "predict-batch") /\ resp[t].code = 200
        /\ Len(resp[t].results) = 3
        /\ resp[t].results[1].scored /\ resp[t].results[1].score = 2
        /\ ~resp[t].results[2].scored /\ resp[t].results[2].error = "ValueError"
        /\ resp[t].results[2].index = 1
        /\ resp[t].results[3].scored /\ resp[t].results[3].score = -2

\* C17: whatever the body, /api/predict-batch answers 200
C17_BatchAlways200 ==
    \A t \in Threads : Answered(t, "predict-batch") => resp[t].code = 200

\* C18: /api/predict answers with a complete result, or with a 400 whose
\* error text names a field, and with nothing else
C18_ResultOrNamedError ==
    \A t \in Threads :
        Answered(t, "predict")
            => \/ /\ resp[t].code = 200 /\ resp[t].scored
                  /\ DOMAIN resp[t].expl = Features
               \/ /\ resp[t].code = 400
                  /\ \E f \in Features : Names(resp[t].msg, f)

\* every explanation in the entries has the five feature keys
ItemsExplained(rs) ==
    \A i \in 1..Len(rs) : rs[i].scored => DOMAIN rs[i].expl = Features

\* C19: every explanation has exactly the five feature keys, in the locals,
\* in the answers and in the batch entries, and the score in an answer is
\* that of its payload; a call of get_shap_explanation whose attribution
\* raises (a fault, or an unusable scaler) gives all zeros, keeps the score
\* and goes on to store the result without any error answer or entry
C19_ExplanationAlwaysComplete ==
    /\ [](\A t \in Threads :
            /\ pc[t] \in {"pr_store", "b_store"} => DOMAIN expl[t] = Features
            /\ resp[t].scored =>
                  /\ DOMAIN resp[t].expl = Features
                  /\ resp[t].score =
                        ScoreOf(normalize_transaction_payload(hashSeed, req[t]).value)
            /\ ItemsExplained(results[t])
            /\ ItemsExplained(resp[t].results))
    /\ [][\A t \in Threads :
            (pc[t] \in {"pr_predict", "b_predict"} /\ Stepped(t) /\ UseError(model) = "")
                => /\ pc'[t] = (IF pc[t] = "pr_predict" THEN "pr_store" ELSE "b_store")
                   /\ score'[t] = score[t]
                   /\ resp'[t] = resp[t]
                   /\ results'[t] = results[t]
                   /\ DOMAIN expl'[t] = Features
                   /\ (faults' # faults \/ UseError(scaler) # "")
                         => expl'[t] = ZeroExplanation]_vars

\* C19 witness: the attribution raised (every computed explanation has a
\* nonzero amount), and /api/predict answered 200 with the score of the
\* payload and the all-zero explanation
C19_Witness ==
    \E t \in Threads :
        /\ Answered(t, "predict") /\ resp[t].code = 200 /\ resp[t].scored
        /\ resp[t].expl = ZeroExplanation
        /\ resp[t].score = 2
        /\ faults = 1

\* ------------------------------------------------------------------------
\* Properties of the dashboard (SpecDash)
\* ------------------------------------------------------------------------
\* C20: when the recompute of the dashboard fails, the answer is the cache
\* as it is (its data, marked cached and stale, with status 200) whenever
\* there is one, however old, and a 500 only when there is none; no step of
\* the failing path changes _dashboard_cache or _dashboard_cache_time; and
\* once a recompute has been answered there is a cache for good
C20_StaleOnRecomputeFailure ==
    /\ [][\A t \in Threads :
            (pc[t] = "d_except" /\ Stepped(t))
                => /\ dashCache # "none" =>
                        /\ resp'[t].code = 200
                        /\ resp'[t].cached /\ resp'[t].stale
                        /\ resp'[t].data = dashGen
                   /\ dashCache = "none" => resp'[t].code = 500]_vars
    /\ [][\A t \in Threads :
            (pc[t] \in {"d_check", "d_serve", "d_emi", "d_query", "d_except"} /\ Stepped(t))
                => (dashCache' = dashCache /\ dashCacheTime' = dashCacheTime
                    /\ dashGen' = dashGen)]_vars
    /\ [](\A t \in Threads :
            (Answered(t, "dashboard") /\ resp[t].code = 200) => dashCache # "none")

\* C20 witness: a failed recompute was answered with the data of a cache
\* older than the cache duration, marked cached and stale
C20_Witness ==
    \E t \in Threads :
        /\ Answered(t, "dashboard") /\ resp[t].code = 200
        /\ resp[t].cached /\ resp[t].stale
        /\ resp[t].data = dashGen
        /\ dashCacheTime >= 0
        /\ curTime[t] - dashCacheTime >= DASHBOARD_CACHE_DURATION

\* ------------------------------------------------------------------------
\* Lazy initialization that fails part-way (Spec)
\* ------------------------------------------------------------------------
\* C26: _initialized is set only when the training has completed and the
\* tables have been created, so an initialization that failed part-way is
\* run again by the next /api/ request
C26_InitializedOnlyWhenComplete ==
    initialized => (fitCalls >= 1 /\ tables)

\* ------------------------------------------------------------------------
\* The dashboard cache over time and under concurrency (SpecDash)
\* ------------------------------------------------------------------------
\* C27: a request that finds a cache younger than DASHBOARD_CACHE_DURATION,
\* counted from the start of the recompute that filled it, serves it and
\* touches neither the model nor the database; with an older cache it
\* recomputes; and the cache time only ever moves forward, set by a
\* recompute that got through
C27_FreshCacheServedElseRecomputed ==
    /\ [][\A t \in Threads :
            (pc[t] = "d_check" /\ Stepped(t) /\ dashCache # "none")
                => IF now - dashStart < DASHBOARD_CACHE_DURATION
                   THEN pc'[t] = "d_serve"
                   ELSE pc'[t] = "d_emi"]_vars
    /\ [][\A t \in Threads :
            (pc[t] = "d_serve" /\ Stepped(t))
                => (pc'[t] = "idle" /\ faults' = faults /\ model' = model
                    /\ scaler' = scaler /\ fitted' = fitted /\ dashCache' = dashCache
                    /\ dashCacheTime' = dashCacheTime)]_vars
    /\ [][dashCacheTime' # dashCacheTime
            => /\ dashCacheTime' > dashCacheTime
               /\ \E t \in Threads : pc[t] = "d_time" /\ Stepped(t)]_vars

\* C29: an answer taken from _dashboard_cache, on the fresh-cache path or on
\* the stale-on-error path, carries cached = true
C29_CacheAnswersMarkedCached ==
    [][\A t \in Threads :
          (pc[t] \in {"d_serve", "d_except"} /\ Stepped(t) /\ resp'[t].code = 200)
              => resp'[t].cached]_vars

\* ------------------------------------------------------------------------
\* Determinism of scoring (SpecScore)
\* ------------------------------------------------------------------------
\* C21: two answers of /api/predict to identical payloads, in a run where
\* nothing raised, carry the same score, the same is_anomaly and the same
\* explanation
C21_ScoringDeterministic ==
    \A t1, t2 \in Threads :
        (faults = 0 /\ Answered(t1, "predict") /\ Answered(t2, "predict")
            /\ req[t1] = req[t2] /\ resp[t1].scored /\ resp[t2].scored)
        => /\ resp[t1].score = resp[t2].score
           /\ IsAnomaly(resp[t1].score) = IsAnomaly(resp[t2].score)
           /\ resp[t1].expl = resp[t2].expl

\* C28: under concurrent submissions the table holds at most one feedback row
\* per transaction_id, and none for a transaction that is not stored
C28_OneFeedbackPerTransaction ==
    \A i, j \in 1..Len(feedbackRows) :
        /\ feedbackRows[i].transaction_id \in StoredTransactions
        /\ feedbackRows[i].transaction_id = feedbackRows[j].transaction_id => i = j

\* C22: every response of lambda_handler carries Access-Control-Allow-Origin
\* with the value '*', Access-Control-Allow-Headers and
\* Access-Control-Allow-Methods
C22_EveryResponseHasCorsHeaders ==
    lresp # NotInvoked =>
        /\ {"Access-Control-Allow-Origin", "Access-Control-Allow-Headers",
            "Access-Control-Allow-Methods"} \subseteq lresp.headers
        /\ lresp.origin = "*"

\* the routes of lambda_handler: the request (method m, normalized path np)
\* matches one of them
MatchesRoute(m, np) ==
    \/ np \in {PathOf(<<"api", "health">>), PathOf(<<"health">>), <<"/">>}
    \/ /\ m = "POST"
       /\ np \in {PathOf(<<"api", "predict">>)} \cup Both(<<"predict-batch">>)
                   \cup Both(<<"feedback">>) \cup Both(<<"transactions">>)
                   \cup Both(<<"fraud-check">>)
    \/ /\ m = "GET"
       /\ \/ np \in {PathOf(<<"api", "dashboard">>)} \cup Both(<<"transactions">>)
                      \cup Both(<<"analytics">>) \cup Both(<<"search">>)
                      \cup Both(<<"compliance">>) \cup Both(<<"compliance", "report">>)
          \/ StartsWith(np, PathOf(<<"api", "transactions", "">>))

C24_UnknownTransactionGets404 ==
    lresp.handler = "get_transaction" =>
        IF lresp.transaction_id \in lstored
        THEN lresp.statusCode = 200
        ELSE lresp.statusCode = 404

\* the features handle_predict extracted from the body of the event
AmountOf(e) == PyFloat(Get(e.body.d, "amount", 0)).n
HourOf(e) == PyInt(Get(e.body.d, "hour", 12)).n
UnusualHour(e) == HourOf(e) < 6 \/ HourOf(e) > 22

\* C25: handle_predict flags a transaction exactly when amount > 1000, or
\* hour < 6 or hour > 22, or amount < 1; the first of these rules that matches
\* fixes the score (0.8 / 0.6 / 0.4) and the risk level; a high amount at an
\* unusual hour is anomalous with a score above 0.5 and risk Medium or High;
\* an amount in [1, 1000] at an hour in 6..22 is not anomalous
C25_RuleBasedPrediction ==
    (lresp.handler = "predict" /\ lresp.statusCode = 200) =>
        /\ lresp.is_anomaly <=>
              (AmountOf(event) > 10000 \/ UnusualHour(event) \/ AmountOf(event) < 10)
        /\ AmountOf(event) > 10000 =>
              lresp.anomaly_score = 8 /\ lresp.risk_level = "High"
        /\ (AmountOf(event) <= 10000 /\ UnusualHour(event)) =>
              lresp.anomaly_score = 6 /\ lresp.risk_level = "Medium"
        /\ (AmountOf(event) < 10 /\ ~UnusualHour(event)) =>
              lresp.anomaly_score = 4 /\ lresp.risk_level = "Medium"
        /\ (AmountOf(event) > 10000 /\ UnusualHour(event)) =>
              /\ lresp.is_anomaly
              /\ lresp.anomaly_score > 5
              /\ lresp.risk_level \in {"Medium", "High"}
        /\ (AmountOf(event) >= 10 /\ AmountOf(event) <= 10000 /\ ~UnusualHour(event)) =>
              ~lresp.is_anomaly

\* amount=5000 at hour=3 has been scored, as an anomaly
C25_Witness ==
    /\ lresp.handler = "predict"
    /\ lresp.statusCode = 200
    /\ event.body = DictBody(FeatureBody(IntV(5000), IntV(3)))
    /\ lresp.is_anomaly
    /\ lresp.anomaly_score = 8

\* C30: in an answer of handle_fraud_check the recommendation is 'review'
\* exactly when is_suspicious is true, and is_suspicious is true exactly when
\* at least one risk factor is listed
C30_FraudCheckSelfConsistent ==
    (lresp.handler = "fraud_check" /\ lresp.statusCode = 200) =>
        /\ lresp.recommendation = "review" <=> lresp.is_suspicious
        /\ lresp.is_suspicious <=> lresp.risk_factors # <<>>

====
